---- MODULE Spec2Model ----
(***************************************************************************)
(* Billing-AI: the daily billing cycle (BillingScheduler), the reminder    *)
(* cycle (ReminderScheduler), the validation combiner (AIValidator) and    *)
(* the stores and collaborators they drive.                                *)
(*                                                                         *)
(* Every async function is cut at its awaits: one action per awaited call, *)
(* with the collaborator's answer (success, or a thrown error) chosen      *)
(* nondeterministically.  Synchronous code between two awaits is part of   *)
(* the action of the await that precedes it.                               *)
(***************************************************************************)
EXTENDS Integers, Sequences, FiniteSets, TLC

(***************************************************************************)
(* Bounds of the model                                                     *)
(***************************************************************************)
\* Billing cycles that may start in one behaviour of the billing job.
MaxBillingCycles == 2
\* Collaborator calls that may fail in one behaviour of the billing job.
MaxFaults == 1
\* Days the clock may advance.
MaxTicks == 1
\* Cycles of each job that may start in one behaviour of the whole system.
SystemCycles == 1
\* Collaborator calls that may fail in one behaviour of the whole system.
SystemFaults == 1
\* Reminder cycles that may start in one behaviour of the reminder job.
MaxReminderCycles == 2
\* Payments that may be recorded in one behaviour of the reminder job.
MaxPayments == 1
MaxStartBack == 30
MaxStartSpan == 120
MaxAdvanceDays == 800
\* Largest days_overdue fed to the cadence policy on its own.
MaxDaysOverdue == 60
\* Smallest days_overdue fed to the cadence policy is -MinDaysBack.
MinDaysBack == 5

(***************************************************************************)
(* Program constants                                                       *)
(***************************************************************************)
\* anomaly_score, similarity_score and confidence range over 0..100
MaxScore == 100
\* due_date = issue_date + 30 days
DueDays == 30
\* The first day of the model, as days since 1970-01-01: 2024-01-31.
Today0 == 19753

\* A nullable value: <<>> is null, <<v>> is the value v.
Null == <<>>
Some(v) == <<v>>
IsNull(o) == o = <<>>
Val(o) == o[1]

Max(a, b) == IF a >= b THEN a ELSE b

(***************************************************************************)
(* JavaScript Date, in UTC: a date is a number of days since 1970-01-01.   *)
(***************************************************************************)
\* Date.UTC(y, m, d) / 86400000 for a month m in 1..12 and a day d in 1..31
DaysFromCivil(y, m, d) ==
    LET yy  == IF m <= 2 THEN y - 1 ELSE y
        era == yy \div 400
        yoe == yy - era * 400
        mp  == IF m > 2 THEN m - 3 ELSE m + 9
        doy == (153 * mp + 2) \div 5 + d - 1
        doe == yoe * 365 + yoe \div 4 - yoe \div 100 + doy
    IN  era * 146097 + doe - 719468

\* getFullYear(), getMonth() + 1 and getDate() of a day number
CivilFromDays(z) ==
    LET zz  == z + 719468
        era == zz \div 146097
        doe == zz - era * 146097
        yoe == (doe - doe \div 1460 + doe \div 36524 - doe \div 146096) \div 365
        doy == doe - (365 * yoe + yoe \div 4 - yoe \div 100)
        mp  == (5 * doy + 2) \div 153
        d   == doy - (153 * mp + 2) \div 5 + 1
        m   == IF mp < 10 THEN mp + 3 ELSE mp - 9
        y   == yoe + era * 400 + (IF m <= 2 THEN 1 ELSE 0)
    IN  [year |-> y, month |-> m, day |-> d]

\* date.setMonth(date.getMonth() + n): the day of the month is kept and a day
\* past the end of the target month runs over into the month after it.
SetMonthPlus(z, n) ==
    LET c  == CivilFromDays(z)
        m0 == (c.month - 1) + n
        y  == c.year + m0 \div 12
        m  == (m0 % 12) + 1
    IN  DaysFromCivil(y, m, 1) + (c.day - 1)

\* date.setFullYear(date.getFullYear() + n)
SetFullYearPlus(z, n) ==
    LET c == CivilFromDays(z)
    IN  DaysFromCivil(c.year + n, c.month, 1) + (c.day - 1)

\* BillingScheduler.calculateNextBillingDate: null for a one-time contract
calculateNextBillingDate(currentDate, frequency) ==
    CASE frequency = "monthly"   -> Some(SetMonthPlus(currentDate, 1))
      [] frequency = "quarterly" -> Some(SetMonthPlus(currentDate, 3))
      [] frequency = "yearly"    -> Some(SetFullYearPlus(currentDate, 1))
      [] frequency = "one-time"  -> Null
      [] OTHER                   -> Some(SetMonthPlus(currentDate, 1))

(***************************************************************************)
(* ReminderScheduler: the cadence policy and the urgency buckets           *)
(***************************************************************************)
\* shouldSendReminder with < for <= at the end of the first week
shouldSendReminderWeekOff(daysOverdue) ==
    IF daysOverdue <= 0 THEN FALSE
    ELSE IF daysOverdue < 7 THEN daysOverdue = 3 \/ daysOverdue = 7
    ELSE IF daysOverdue <= 14 THEN daysOverdue = 10 \/ daysOverdue = 14
    ELSE IF daysOverdue <= 30 THEN daysOverdue % 5 = 0
    ELSE daysOverdue % 7 = 0

shouldSendReminder(daysOverdue) ==
    IF daysOverdue <= 0 THEN FALSE
    ELSE IF daysOverdue <= 7 THEN daysOverdue = 3 \/ daysOverdue = 7
    ELSE IF daysOverdue <= 14 THEN daysOverdue = 10 \/ daysOverdue = 14
    ELSE IF daysOverdue <= 30 THEN daysOverdue % 5 = 0
    ELSE daysOverdue % 7 = 0

\* the urgency buckets with < 7 for <= 7 at the first boundary
urgencyOfWeekOff(daysOverdue) ==
    IF daysOverdue < 7 THEN "low"
    ELSE IF daysOverdue <= 14 THEN "medium"
    ELSE IF daysOverdue <= 30 THEN "high"
    ELSE "critical"

urgencyOf(daysOverdue) ==
    IF daysOverdue <= 7 THEN "low"
    ELSE IF daysOverdue <= 14 THEN "medium"
    ELSE IF daysOverdue <= 30 THEN "high"
    ELSE "critical"

(***************************************************************************)
(* AIValidator: verdicts and the combiner                                  *)
(***************************************************************************)
\* performValidation's catch: the verdict substituted when the AI call fails
FallbackVerdict ==
    [validation_status |-> "failed",
     anomaly_score     |-> 100,
     flags             |-> << <<"AI validation failed - manual review required", Null>> >>,
     suggestions       |-> <<"Please manually review this invoice due to AI validation error.">>,
     confidence        |-> 0]

\* checkDuplicates: the result when the customer has no recent invoice
NoRecentInvoices ==
    [is_duplicate |-> FALSE, duplicate_of |-> Null, similarity_score |-> 0,
     explanation |-> "No recent invoices found for comparison"]

\* checkDuplicates' catch: the result substituted when the check fails
DuplicateCheckFailed ==
    [is_duplicate |-> FALSE, duplicate_of |-> Null, similarity_score |-> 0,
     explanation |-> "Duplicate check failed - proceeding with caution"]

Min(a, b) == IF a <= b THEN a ELSE b

\* combineResults with Math.min for Math.max in the duplicate branch
combineResultsMin(vr, dc) ==
    LET status0 == vr.validation_status
        score0  == vr.anomaly_score
        flags0  == vr.flags
        sugg0   == vr.suggestions
        dupBranch  == dc.is_duplicate
        simBranch  == ~dc.is_duplicate /\ dc.similarity_score > 70
        status1 == IF dupBranch THEN "flagged" ELSE status0
        score1  == IF dupBranch THEN Min(score0, 90)
                   ELSE IF simBranch THEN Max(score0, 60)
                   ELSE score0
        flags1  == IF dupBranch
                   THEN Append(flags0, <<"Possible duplicate of invoice", dc.duplicate_of>>)
                   ELSE IF simBranch
                   THEN Append(flags0, <<"High similarity to recent invoices",
                                         Some(dc.similarity_score)>>)
                   ELSE flags0
        sugg1   == IF dupBranch
                   THEN sugg0 \o <<" DUPLICATE ALERT: This invoice appears to be a duplicate. ",
                                   dc.explanation>>
                   ELSE sugg0
        status2 == IF score1 >= 70 THEN "flagged"
                   ELSE IF score1 >= 40 THEN "validated"
                   ELSE "validated"
    IN  [validation_status |-> status2,
         anomaly_score     |-> score1,
         flags             |-> flags1,
         suggestions       |-> sugg1,
         confidence        |-> IF vr.confidence = 0 THEN 80 ELSE vr.confidence,
         duplicate_check   |-> dc]

\* combineResults that re-derives the status only upwards: below 70 the status
\* set so far is kept
combineResultsKeepsStatus(vr, dc) ==
    LET status0 == vr.validation_status
        score0  == vr.anomaly_score
        flags0  == vr.flags
        sugg0   == vr.suggestions
        dupBranch  == dc.is_duplicate
        simBranch  == ~dc.is_duplicate /\ dc.similarity_score > 70
        status1 == IF dupBranch THEN "flagged" ELSE status0
        score1  == IF dupBranch THEN Max(score0, 90)
                   ELSE IF simBranch THEN Max(score0, 60)
                   ELSE score0
        flags1  == IF dupBranch
                   THEN Append(flags0, <<"Possible duplicate of invoice", dc.duplicate_of>>)
                   ELSE IF simBranch
                   THEN Append(flags0, <<"High similarity to recent invoices",
                                         Some(dc.similarity_score)>>)
                   ELSE flags0
        sugg1   == IF dupBranch
                   THEN sugg0 \o <<" DUPLICATE ALERT: This invoice appears to be a duplicate. ",
                                   dc.explanation>>
                   ELSE sugg0
        status2 == IF score1 >= 70 THEN "flagged"
                   ELSE status1
    IN  [validation_status |-> status2,
         anomaly_score     |-> score1,
         flags             |-> flags1,
         suggestions       |-> sugg1,
         confidence        |-> IF vr.confidence = 0 THEN 80 ELSE vr.confidence,
         duplicate_check   |-> dc]

\* A flag is <<text, argument>>; suggestions are the pieces of the string.
combineResults(vr, dc) ==
    LET status0 == vr.validation_status
        score0  == vr.anomaly_score
        flags0  == vr.flags
        sugg0   == vr.suggestions
        dupBranch  == dc.is_duplicate
        simBranch  == ~dc.is_duplicate /\ dc.similarity_score > 70
        status1 == IF dupBranch THEN "flagged" ELSE status0
        score1  == IF dupBranch THEN Max(score0, 90)
                   ELSE IF simBranch THEN Max(score0, 60)
                   ELSE score0
        flags1  == IF dupBranch
                   THEN Append(flags0, <<"Possible duplicate of invoice", dc.duplicate_of>>)
                   ELSE IF simBranch
                   THEN Append(flags0, <<"High similarity to recent invoices",
                                         Some(dc.similarity_score)>>)
                   ELSE flags0
        sugg1   == IF dupBranch
                   THEN sugg0 \o <<" DUPLICATE ALERT: This invoice appears to be a duplicate. ",
                                   dc.explanation>>
                   ELSE sugg0
        status2 == IF score1 >= 70 THEN "flagged"
                   ELSE IF score1 >= 40 THEN "validated"
                   ELSE "validated"
    IN  [validation_status |-> status2,
         anomaly_score     |-> score1,
         flags             |-> flags1,
         suggestions       |-> sugg1,
         confidence        |-> IF vr.confidence = 0 THEN 80 ELSE vr.confidence,
         duplicate_check   |-> dc]

(***************************************************************************)
(* State                                                                   *)
(***************************************************************************)
VARIABLES
    limits,           \* what the environment may do in this behaviour
    faults,           \* collaborator calls that have failed so far
    today,            \* CURRENT_DATE / new Date(), in days since 1970-01-01
    contracts,        \* table contracts: id -> row
    invoices,         \* table invoices: a sequence of rows, the id is the index
    validationLogs,   \* table ai_validation_logs
    auditLog,         \* table audit_logs
    outbox,           \* what transporter.sendMail has delivered
    bIsRunning,       \* BillingScheduler.isRunning
    bPc,              \* the await executeBillingCycle is suspended on
    bCycles,          \* billing cycles started so far
    bTrigger,         \* who called executeBillingCycle: for the cycle started last, and last
    bLast,            \* the last call of the billing job and how it ended
    dueContracts,     \* executeBillingCycle: dueContracts
    bIdx,             \* executeBillingCycle: position of the for loop
    results,          \* executeBillingCycle: results
    invoiceId,        \* processContract: invoice.id
    validationResult, \* validateInvoice: validationResult
    duplicateCheck,   \* validateInvoice: duplicateCheck
    finalResult,      \* validateInvoice: finalResult
    caught,           \* sendInvoiceEmail: the error its catch block holds
    rIsRunning,      \* ReminderScheduler.isRunning
    rPc,              \* the await executeReminderCycle is suspended on
    rCycles,          \* reminder cycles started so far
    rTrigger,         \* who called executeReminderCycle: for the cycle started last, and last
    rLast,            \* the last call of the reminder job and how it ended
    overdueInvoices,  \* executeReminderCycle: overdueInvoices
    rIdx,             \* executeReminderCycle: position of the for loop
    rResults,         \* executeReminderCycle: results
    rInvoice,         \* sendReminderEmail: invoice (the row findById returned)
    daysOverdue,      \* processOverdueInvoice: daysOverdue
    sendDecision      \* processOverdueInvoice: shouldSendReminder

storeVars == <<contracts, invoices, validationLogs, auditLog, outbox>>
billLocals == <<dueContracts, bIdx, results, invoiceId, validationResult,
                duplicateCheck, finalResult, caught>>
billVars == <<bIsRunning, bPc, bCycles, bTrigger, bLast, billLocals>>
remLocals == <<overdueInvoices, rIdx, rResults, rInvoice, daysOverdue, sendDecision>>
remVars == <<rIsRunning, rPc, rCycles, rTrigger, rLast, remLocals>>
vars == <<limits, faults, today, storeVars, billVars, remVars>>

ContractIds == {1, 2, 3}

\* What a call of a job did last: the call and whether it returned or threw.
Call(op, outcome) == [op |-> op, outcome |-> outcome]
NoCall == Call("none", "none")

\* A collaborator call fails (the environment allows so many), or does not.
Fault == faults < limits.faults /\ faults' = faults + 1
NoFault == faults' = faults

\* Who calls a job's entry point: the cron callback that start() schedules,
\* or triggerManually.
Sources == {"cron", "manual"}
Trigger(cycle, last) == [cycle |-> cycle, last |-> last]
NoTrigger == Trigger("none", "none")

\* What the environment may do: cycles of each job, failed calls, days, payments,
\* and who triggers the jobs (the cron callbacks, unless said otherwise).
Limits(billingCycles, reminderCycles, maxFaults, ticks, payments) ==
    [billingCycles |-> billingCycles, reminderCycles |-> reminderCycles,
     faults |-> maxFaults, ticks |-> ticks, payments |-> payments,
     sources |-> {"cron"}]

(***************************************************************************)
(* database/models.js                                                      *)
(***************************************************************************)
\* The ids of a set of rows, ordered by a date column, ascending (ties by id).
OrderedBy(ids, key) ==
    IF ids = {} THEN <<>>
    ELSE CHOOSE s \in [1..Cardinality(ids) -> ids] :
            /\ \A i, j \in DOMAIN s : i < j =>
                  \/ key[s[i]] < key[s[j]]
                  \/ key[s[i]] = key[s[j]] /\ s[i] < s[j]

\* Contract.findDueForBilling: active, next_billing_date <= CURRENT_DATE
\* (a null date compares as unknown and is not selected), oldest first.
findDueForBilling ==
    LET due == {c \in ContractIds :
                   /\ contracts[c].is_active
                   /\ ~IsNull(contracts[c].next_billing_date)
                   /\ Val(contracts[c].next_billing_date) <= today}
        dateOf == [c \in due |-> Val(contracts[c].next_billing_date)]
        ids == OrderedBy(due, dateOf)
    IN  [i \in DOMAIN ids |->
            [id                |-> ids[i],
             customer_id       |-> contracts[ids[i]].customer_id,
             billing_frequency |-> contracts[ids[i]].billing_frequency,
             next_billing_date |-> Val(contracts[ids[i]].next_billing_date),
             amount              |-> contracts[ids[i]].amount,
             tax_rate            |-> contracts[ids[i]].tax_rate,
             discount_percentage |-> contracts[ids[i]].discount_percentage]]

\* Invoice.findOverdue with due_date <= CURRENT_DATE
findOverdueDueToday ==
    LET late == {i \in DOMAIN invoices :
                    /\ invoices[i].status \in {"sent", "pending"}
                    /\ invoices[i].due_date <= today}
        dateOf == [i \in late |-> invoices[i].due_date]
        ids == OrderedBy(late, dateOf)
    IN  [k \in DOMAIN ids |-> [id |-> ids[k], due_date |-> invoices[ids[k]].due_date]]

\* Invoice.findOverdue: status sent or pending, due_date < CURRENT_DATE
findOverdue ==
    LET late == {i \in DOMAIN invoices :
                    /\ invoices[i].status \in {"sent", "pending"}
                    /\ invoices[i].due_date < today}
        dateOf == [i \in late |-> invoices[i].due_date]
        ids == OrderedBy(late, dateOf)
    IN  [k \in DOMAIN ids |-> [id |-> ids[k], due_date |-> invoices[ids[k]].due_date]]

\* Money is counted in cents and a rate in hundredths of a percent (both
\* columns have two decimals), so amount * rate is in units of 1/10000 cent.
RateUnit == 10000

\* Number.toFixed(2) of a value given in 1/10000 cent: the nearest cent. A value
\* exactly half way between two cents is not a double: the double that stands
\* for it lies a little below or a little above (up), and that decides.
toFixed(x, up) ==
    LET cents == x \div RateUnit
        rest  == x % RateUnit
    IN  IF rest * 2 > RateUnit \/ (rest * 2 = RateUnit /\ up) THEN cents + 1 ELSE cents

\* On which side of a half cent the doubles of the three computed values lie.
Ties == [tax : BOOLEAN, discount : BOOLEAN, total : BOOLEAN]

\* BillingScheduler.calculateInvoiceAmounts: the amounts, each rounded on its
\* own from the unrounded value; the new row is pending, issued today and due
\* 30 days later. (The subtotal is a whole number of cents: the total is
\* rounded with the subtotal left out and the subtotal added afterwards, which
\* is the same cent and keeps the numbers small.)
calculateInvoiceAmounts(contract, ties) ==
    LET subtotal       == contract.amount
        taxAmount      == contract.amount * contract.tax_rate
        discountAmount == contract.amount * contract.discount_percentage
    IN  [contract_id          |-> contract.id,
         customer_id          |-> contract.customer_id,
         issue_date           |-> today,
         due_date             |-> today + DueDays,
         subtotal             |-> subtotal,
         tax_amount           |-> toFixed(taxAmount, ties.tax),
         discount_amount      |-> toFixed(discountAmount, ties.discount),
         total_amount         |-> subtotal + toFixed(taxAmount - discountAmount, ties.total),
         status               |-> "pending",
         pdf_url              |-> FALSE,
         ai_validation_status |-> "pending",
         ai_anomaly_score     |-> 0]

\* One audit_logs row.
AuditRow(action_type, entity_id, detail) ==
    [action_type |-> action_type, entity_id |-> entity_id, detail |-> detail]

(***************************************************************************)
(* BillingScheduler.executeBillingCycle                                    *)
(***************************************************************************)
NoResults == [total |-> 0, successful |-> 0, failed |-> 0, flagged |-> 0, errors |-> <<>>]

\* processContract's locals go out of scope
ClearItem ==
    /\ invoiceId' = Null
    /\ validationResult' = Null
    /\ duplicateCheck' = Null
    /\ finalResult' = Null
    /\ caught' = Null

\* the finally block, and the return of executeBillingCycle
BillingCycleEnds ==
    /\ bIsRunning' = FALSE
    /\ bPc' = "idle"
    /\ dueContracts' = <<>>
    /\ bIdx' = 0
    /\ results' = NoResults
    /\ ClearItem

\* the for loop goes on to the next contract, or to the summary after the last
NextContract ==
    /\ bIdx' = bIdx + 1
    /\ bPc' = IF bIdx < Len(dueContracts) THEN "create" ELSE "summary"
    /\ ClearItem

\* the catch placed around the loop instead of inside it: the first failed
\* contract ends the loop
ContractFailedEndsLoop(message) ==
    /\ results' = [results EXCEPT
                      !.failed = @ + 1,
                      !.errors = Append(@, [contract_id |-> dueContracts[bIdx].id,
                                            error |-> message])]
    /\ bIdx' = Len(dueContracts) + 1
    /\ bPc' = "summary"
    /\ ClearItem

\* the catch around processContract: count, record, continue
ContractFailed(message) ==
    /\ results' = [results EXCEPT
                      !.failed = @ + 1,
                      !.errors = Append(@, [contract_id |-> dueContracts[bIdx].id,
                                            error |-> message])]
    /\ NextContract

\* executeBillingCycle without the isRunning test: every trigger starts a cycle
ExecuteBillingCycleUnguarded ==
    /\ bCycles < limits.billingCycles
    /\ bIsRunning' = TRUE
    /\ bPc' = "findDue"
    /\ bCycles' = bCycles + 1
    /\ bLast' = Call("executeBillingCycle", "started")
    /\ \E source \in limits.sources : bTrigger' = Trigger(source, source)
    /\ UNCHANGED <<limits, faults, today, storeVars, billLocals, remVars>>

\* A trigger of the billing job (the cron callback, or triggerManually):
\* the code of executeBillingCycle up to its first await.
ExecuteBillingCycle ==
    /\ \E source \in limits.sources :
          \/ /\ bIsRunning
             /\ bLast' = Call("executeBillingCycle", "skipped")
             /\ bTrigger' = Trigger(bTrigger.cycle, source)
             /\ UNCHANGED <<bIsRunning, bPc, bCycles>>
          \/ /\ ~bIsRunning
             /\ bCycles < limits.billingCycles
             /\ bIsRunning' = TRUE
             /\ bPc' = "findDue"
             /\ bCycles' = bCycles + 1
             /\ bLast' = Call("executeBillingCycle", "started")
             /\ bTrigger' = Trigger(source, source)
    /\ UNCHANGED <<limits, faults, today, storeVars, billLocals, remVars>>

\* executeBillingCycle with the catch but without the finally block: a failed
\* query leaves the flag set
FindDueContractsNoFinally ==
    /\ bPc = "findDue"
    /\ \/ /\ findDueForBilling = <<>>
          /\ bLast' = Call("Contract.findDueForBilling", "returned") /\ NoFault
          /\ BillingCycleEnds
       \/ /\ findDueForBilling # <<>>
          /\ bLast' = Call("Contract.findDueForBilling", "returned") /\ NoFault
          /\ dueContracts' = findDueForBilling
          /\ results' = [NoResults EXCEPT !.total = Len(findDueForBilling)]
          /\ bIdx' = 1
          /\ bPc' = "create"
          /\ ClearItem
          /\ UNCHANGED bIsRunning
       \/ /\ bLast' = Call("Contract.findDueForBilling", "threw") /\ Fault
          /\ bPc' = "idle"
          /\ dueContracts' = <<>>
          /\ bIdx' = 0
          /\ results' = NoResults
          /\ ClearItem
          /\ UNCHANGED bIsRunning
    /\ UNCHANGED <<limits, today, storeVars, bCycles, bTrigger, remVars>>

\* executeBillingCycle without the test for an empty list: the loop runs zero
\* times and the summary is written
FindDueContractsSummaryOnEmpty ==
    /\ bPc = "findDue"
    /\ \/ /\ findDueForBilling = <<>>
          /\ bLast' = Call("Contract.findDueForBilling", "returned") /\ NoFault
          /\ dueContracts' = <<>>
          /\ results' = NoResults
          /\ bIdx' = 1
          /\ bPc' = "summary"
          /\ ClearItem
          /\ UNCHANGED bIsRunning
       \/ /\ findDueForBilling # <<>>
          /\ bLast' = Call("Contract.findDueForBilling", "returned") /\ NoFault
          /\ dueContracts' = findDueForBilling
          /\ results' = [NoResults EXCEPT !.total = Len(findDueForBilling)]
          /\ bIdx' = 1
          /\ bPc' = "create"
          /\ ClearItem
          /\ UNCHANGED bIsRunning
       \/ /\ bLast' = Call("Contract.findDueForBilling", "threw") /\ Fault
          /\ BillingCycleEnds
    /\ UNCHANGED <<limits, today, storeVars, bCycles, bTrigger, remVars>>

\* executeBillingCycle with try/finally but no catch: the error of the query
\* leaves executeBillingCycle and reaches its caller
FindDueContractsNoCatch ==
    /\ bPc = "findDue"
    /\ \/ /\ findDueForBilling = <<>>
          /\ bLast' = Call("Contract.findDueForBilling", "returned") /\ NoFault
          /\ BillingCycleEnds
       \/ /\ findDueForBilling # <<>>
          /\ bLast' = Call("Contract.findDueForBilling", "returned") /\ NoFault
          /\ dueContracts' = findDueForBilling
          /\ results' = [NoResults EXCEPT !.total = Len(findDueForBilling)]
          /\ bIdx' = 1
          /\ bPc' = "create"
          /\ ClearItem
          /\ UNCHANGED bIsRunning
       \/ /\ bLast' = Call("executeBillingCycle", "threw") /\ Fault
          /\ BillingCycleEnds
    /\ UNCHANGED <<limits, today, storeVars, bCycles, bTrigger, remVars>>

\* Step 1: await Contract.findDueForBilling()
FindDueContracts ==
    /\ bPc = "findDue"
    /\ \/ /\ findDueForBilling = <<>>
          /\ bLast' = Call("Contract.findDueForBilling", "returned") /\ NoFault
          /\ BillingCycleEnds
       \/ /\ findDueForBilling # <<>>
          /\ bLast' = Call("Contract.findDueForBilling", "returned") /\ NoFault
          /\ dueContracts' = findDueForBilling
          /\ results' = [NoResults EXCEPT !.total = Len(findDueForBilling)]
          /\ bIdx' = 1
          /\ bPc' = "create"
          /\ ClearItem
          /\ UNCHANGED bIsRunning
       \/ /\ bLast' = Call("Contract.findDueForBilling", "threw") /\ Fault
          /\ BillingCycleEnds
    /\ UNCHANGED <<limits, today, storeVars, bCycles, bTrigger, remVars>>

\* processContract steps 1-2: calculateInvoiceAmounts, await Invoice.create
CreateInvoice ==
    /\ bPc = "create"
    /\ \/ /\ \E ties \in Ties :
                invoices' = Append(invoices, calculateInvoiceAmounts(dueContracts[bIdx], ties))
          /\ invoiceId' = Some(Len(invoices) + 1)
          /\ bPc' = "logGeneration"
          /\ bLast' = Call("Invoice.create", "returned") /\ NoFault
          /\ UNCHANGED <<bIdx, results, validationResult, duplicateCheck, finalResult,
                         caught>>
       \/ /\ bLast' = Call("Invoice.create", "threw") /\ Fault
          /\ ContractFailed("Invoice.create failed")
          /\ UNCHANGED invoices
    /\ UNCHANGED <<limits, today, contracts, validationLogs, auditLog, outbox,
                   bIsRunning, bCycles, bTrigger, dueContracts, remVars>>

\* await auditManager.logInvoiceGeneration: logAction rethrows a failed insert
LogInvoiceGeneration ==
    /\ bPc = "logGeneration"
    /\ \/ /\ auditLog' = auditLog \cup
                 {AuditRow("INVOICE_GENERATED", invoiceId, dueContracts[bIdx].id)}
          /\ bPc' = "generatePDF"
          /\ bLast' = Call("auditManager.logInvoiceGeneration", "returned") /\ NoFault
          /\ UNCHANGED billLocals
       \/ /\ bLast' = Call("auditManager.logInvoiceGeneration", "threw") /\ Fault
          /\ ContractFailed("AuditLog.create failed")
          /\ UNCHANGED auditLog
    /\ UNCHANGED <<limits, today, contracts, invoices, validationLogs, outbox,
                   bIsRunning, bCycles, bTrigger, dueContracts, remVars>>

\* step 3 inside a try/catch that only logs: processContract goes on to the
\* upload although no PDF was rendered
GeneratePDFErrorIgnored ==
    /\ bPc = "generatePDF"
    /\ \/ /\ bPc' = "uploadPDF"
          /\ bLast' = Call("invoiceGenerator.generatePDF", "returned") /\ NoFault
          /\ UNCHANGED billLocals
       \/ /\ bLast' = Call("invoiceGenerator.generatePDF", "threw") /\ Fault
          /\ bPc' = "uploadPDF"
          /\ UNCHANGED billLocals
    /\ UNCHANGED <<limits, today, storeVars, bIsRunning, bCycles, bTrigger, dueContracts, remVars>>

\* Step 3: await invoiceGenerator.generatePDF
GeneratePDF ==
    /\ bPc = "generatePDF"
    /\ \/ /\ bPc' = "uploadPDF"
          /\ bLast' = Call("invoiceGenerator.generatePDF", "returned") /\ NoFault
          /\ UNCHANGED billLocals
       \/ /\ bLast' = Call("invoiceGenerator.generatePDF", "threw") /\ Fault
          /\ ContractFailed("PDF generation failed")
    /\ UNCHANGED <<limits, today, storeVars, bIsRunning, bCycles, bTrigger, dueContracts, remVars>>

\* Step 4, uploadAndUpdateInvoice: await this.uploadPDF
UploadPDF ==
    /\ bPc = "uploadPDF"
    /\ \/ /\ bPc' = "updatePdfInfo"
          /\ bLast' = Call("invoiceStorage.uploadPDF", "returned") /\ NoFault
          /\ UNCHANGED billLocals
       \/ /\ bLast' = Call("invoiceStorage.uploadPDF", "threw") /\ Fault
          /\ ContractFailed("PDF upload failed")
    /\ UNCHANGED <<limits, today, storeVars, bIsRunning, bCycles, bTrigger, dueContracts, remVars>>

\* Step 4, uploadAndUpdateInvoice: await Invoice.updatePdfInfo
UpdatePdfInfo ==
    /\ bPc = "updatePdfInfo"
    /\ \/ /\ invoices' = [invoices EXCEPT ![Val(invoiceId)].pdf_url = TRUE]
          /\ bPc' = "performValidation"
          /\ bLast' = Call("Invoice.updatePdfInfo", "returned") /\ NoFault
          /\ UNCHANGED billLocals
       \/ /\ bLast' = Call("Invoice.updatePdfInfo", "threw") /\ Fault
          /\ ContractFailed("Invoice.updatePdfInfo failed")
          /\ UNCHANGED invoices
    /\ UNCHANGED <<limits, today, contracts, validationLogs, auditLog, outbox,
                   bIsRunning, bCycles, bTrigger, dueContracts, remVars>>

(***************************************************************************)
(* AIValidator.validateInvoice, called by processContract step 5           *)
(***************************************************************************)
\* What the AI answers to the validation prompt when it answers well-formed JSON.
AIVerdicts ==
    {[validation_status |-> "validated", anomaly_score |-> 0, flags |-> <<>>,
      suggestions |-> <<>>, confidence |-> 95],
     [validation_status |-> "flagged", anomaly_score |-> 80,
      flags |-> << <<"Amount does not match contract", Null>> >>,
      suggestions |-> <<"Check the amount">>, confidence |-> 90]}

\* What the AI answers to the duplicate prompt, given the candidates.
DuplicateAnswers(recent) ==
    {[is_duplicate |-> FALSE, duplicate_of |-> Null, similarity_score |-> 0,
      explanation |-> "No similar invoice"],
     [is_duplicate |-> TRUE, duplicate_of |-> Some(CHOOSE i \in recent : TRUE),
      similarity_score |-> 95, explanation |-> "Same customer and amount"]}

\* checkDuplicates: the customer's other invoices of the last 30 days
recentInvoices(id) ==
    {i \in DOMAIN invoices :
        /\ invoices[i].customer_id = invoices[id].customer_id
        /\ i # id
        /\ invoices[i].issue_date >= today - 30}

\* await Invoice.findById, await Contract.findById, await performValidation:
\* performValidation catches a failed or malformed AI answer itself.
PerformValidation ==
    /\ bPc = "performValidation"
    /\ \/ /\ \E v \in AIVerdicts : validationResult' = v
          /\ bPc' = "checkDuplicates"
          /\ bLast' = Call("model.generateContent", "returned") /\ NoFault
          /\ UNCHANGED <<bIdx, results, invoiceId, duplicateCheck, finalResult, caught>>
       \/ /\ validationResult' = FallbackVerdict
          /\ bPc' = "checkDuplicates"
          /\ bLast' = Call("model.generateContent", "threw") /\ Fault
          /\ UNCHANGED <<bIdx, results, invoiceId, duplicateCheck, finalResult, caught>>
       \/ /\ bLast' = Call("Invoice.findById", "threw") /\ Fault
          /\ ContractFailed("Invoice.findById failed")
    /\ UNCHANGED <<limits, today, storeVars, bIsRunning, bCycles, bTrigger, dueContracts, remVars>>

\* checkDuplicates without its try/catch: a failed check leaves validateInvoice
\* and processContract
CheckDuplicatesNoCatch ==
    /\ bPc = "checkDuplicates"
    /\ LET recent == recentInvoices(Val(invoiceId))
       IN  \/ /\ recent = {}
              /\ duplicateCheck' = NoRecentInvoices
              /\ bLast' = Call("checkDuplicates", "no candidates") /\ NoFault
              /\ finalResult' = combineResults(validationResult, duplicateCheck')
              /\ bPc' = "saveValidationLog"
              /\ UNCHANGED <<bIdx, results, invoiceId, validationResult, caught>>
           \/ /\ recent # {}
              /\ \E d \in DuplicateAnswers(recent) : duplicateCheck' = d
              /\ bLast' = Call("checkDuplicates", "returned") /\ NoFault
              /\ finalResult' = combineResults(validationResult, duplicateCheck')
              /\ bPc' = "saveValidationLog"
              /\ UNCHANGED <<bIdx, results, invoiceId, validationResult, caught>>
           \/ /\ bLast' = Call("checkDuplicates", "threw") /\ Fault
              /\ ContractFailed("Duplicate check failed")
    /\ UNCHANGED <<limits, today, storeVars, bIsRunning, bCycles, bTrigger, dueContracts, remVars>>

\* await checkDuplicates, which catches its own errors, then combineResults
CheckDuplicates ==
    /\ bPc = "checkDuplicates"
    /\ LET recent == recentInvoices(Val(invoiceId))
       IN  \/ /\ recent = {}
              /\ duplicateCheck' = NoRecentInvoices
              /\ bLast' = Call("checkDuplicates", "no candidates") /\ NoFault
           \/ /\ recent # {}
              /\ \E d \in DuplicateAnswers(recent) : duplicateCheck' = d
              /\ bLast' = Call("checkDuplicates", "returned") /\ NoFault
           \/ /\ duplicateCheck' = DuplicateCheckFailed
              /\ bLast' = Call("checkDuplicates", "threw") /\ Fault
    /\ finalResult' = combineResults(validationResult, duplicateCheck')
    /\ bPc' = "saveValidationLog"
    /\ UNCHANGED <<limits, today, storeVars, bIsRunning, bCycles, bTrigger, dueContracts, bIdx, results,
                   invoiceId, validationResult, caught, remVars>>
\* (combineResults runs in the same turn as the return of checkDuplicates)

\* await AIValidationLog.create
SaveValidationLog ==
    /\ bPc = "saveValidationLog"
    /\ \/ /\ validationLogs' = validationLogs \cup
                 {[invoice_id        |-> Val(invoiceId),
                   validation_status |-> finalResult.validation_status,
                   anomaly_score     |-> finalResult.anomaly_score]}
          /\ bPc' = "updateAiValidation"
          /\ bLast' = Call("AIValidationLog.create", "returned") /\ NoFault
          /\ UNCHANGED billLocals
       \/ /\ bLast' = Call("AIValidationLog.create", "threw") /\ Fault
          /\ ContractFailed("AIValidationLog.create failed")
          /\ UNCHANGED validationLogs
    /\ UNCHANGED <<limits, today, contracts, invoices, auditLog, outbox,
                   bIsRunning, bCycles, bTrigger, dueContracts, remVars>>

\* await Invoice.updateAiValidation
UpdateAiValidation ==
    /\ bPc = "updateAiValidation"
    /\ \/ /\ invoices' = [invoices EXCEPT
                            ![Val(invoiceId)].ai_validation_status =
                                finalResult.validation_status,
                            ![Val(invoiceId)].ai_anomaly_score = finalResult.anomaly_score]
          /\ bPc' = "logAIValidation"
          /\ bLast' = Call("Invoice.updateAiValidation", "returned") /\ NoFault
          /\ UNCHANGED billLocals
       \/ /\ bLast' = Call("Invoice.updateAiValidation", "threw") /\ Fault
          /\ ContractFailed("Invoice.updateAiValidation failed")
          /\ UNCHANGED invoices
    /\ UNCHANGED <<limits, today, contracts, validationLogs, auditLog, outbox,
                   bIsRunning, bCycles, bTrigger, dueContracts, remVars>>

\* processContract returning from the else branch of step 6: a flagged invoice
\* never reaches step 7
LogAIValidationFlaggedReturns ==
    /\ bPc = "logAIValidation"
    /\ \/ /\ finalResult.validation_status = "validated"
          /\ auditLog' = auditLog \cup
                 {AuditRow("AI_VALIDATION", invoiceId, finalResult.anomaly_score)}
          /\ bPc' = "sendMail"
          /\ bLast' = Call("aiValidator.validateInvoice", "returned") /\ NoFault
          /\ UNCHANGED billLocals
       \/ /\ finalResult.validation_status # "validated"
          /\ auditLog' = auditLog \cup
                 {AuditRow("AI_VALIDATION", invoiceId, finalResult.anomaly_score)}
          /\ results' = [results EXCEPT !.flagged = @ + 1]
          /\ NextContract
          /\ bLast' = Call("aiValidator.validateInvoice", "returned") /\ NoFault
       \/ /\ bLast' = Call("auditManager.logAIValidation", "threw") /\ Fault
          /\ ContractFailed("AuditLog.create failed")
          /\ UNCHANGED auditLog
    /\ UNCHANGED <<limits, today, contracts, invoices, validationLogs, outbox,
                   bIsRunning, bCycles, bTrigger, dueContracts, remVars>>

\* processContract step 6 testing for validation_status !== 'failed' instead of
\* === 'validated': a flagged invoice is sent
LogAIValidationSendsUnlessFailed ==
    /\ bPc = "logAIValidation"
    /\ \/ /\ finalResult.validation_status # "failed"
          /\ auditLog' = auditLog \cup
                 {AuditRow("AI_VALIDATION", invoiceId, finalResult.anomaly_score)}
          /\ bPc' = "sendMail"
          /\ bLast' = Call("aiValidator.validateInvoice", "returned") /\ NoFault
          /\ UNCHANGED billLocals
       \/ /\ finalResult.validation_status = "failed"
          /\ auditLog' = auditLog \cup
                 {AuditRow("AI_VALIDATION", invoiceId, finalResult.anomaly_score)}
          /\ results' = [results EXCEPT !.flagged = @ + 1]
          /\ bPc' = "updateNextBillingDate"
          /\ bLast' = Call("aiValidator.validateInvoice", "returned") /\ NoFault
          /\ UNCHANGED <<bIdx, invoiceId, validationResult, duplicateCheck,
                         finalResult, caught>>
       \/ /\ bLast' = Call("auditManager.logAIValidation", "threw") /\ Fault
          /\ ContractFailed("AuditLog.create failed")
          /\ UNCHANGED auditLog
    /\ UNCHANGED <<limits, today, contracts, invoices, validationLogs, outbox,
                   bIsRunning, bCycles, bTrigger, dueContracts, remVars>>

\* await auditManager.logAIValidation, the return of validateInvoice, and
\* processContract step 6 up to its await: send if validated, else count as flagged
LogAIValidation ==
    /\ bPc = "logAIValidation"
    /\ \/ /\ finalResult.validation_status = "validated"
          /\ auditLog' = auditLog \cup
                 {AuditRow("AI_VALIDATION", invoiceId, finalResult.anomaly_score)}
          /\ bPc' = "sendMail"
          /\ bLast' = Call("aiValidator.validateInvoice", "returned") /\ NoFault
          /\ UNCHANGED billLocals
       \/ /\ finalResult.validation_status # "validated"
          /\ auditLog' = auditLog \cup
                 {AuditRow("AI_VALIDATION", invoiceId, finalResult.anomaly_score)}
          /\ results' = [results EXCEPT !.flagged = @ + 1]
          /\ bPc' = "updateNextBillingDate"
          /\ bLast' = Call("aiValidator.validateInvoice", "returned") /\ NoFault
          /\ UNCHANGED <<bIdx, invoiceId, validationResult, duplicateCheck,
                         finalResult, caught>>
       \/ /\ bLast' = Call("auditManager.logAIValidation", "threw") /\ Fault
          /\ ContractFailed("AuditLog.create failed")
          /\ UNCHANGED auditLog
    /\ UNCHANGED <<limits, today, contracts, invoices, validationLogs, outbox,
                   bIsRunning, bCycles, bTrigger, dueContracts, remVars>>

(***************************************************************************)
(* Mailer.sendInvoiceEmail, called by processContract step 6               *)
(***************************************************************************)
\* await Invoice.findById, the pdf_url check, await transporter.sendMail
SendMail ==
    /\ bPc = "sendMail"
    /\ \/ /\ invoices[Val(invoiceId)].pdf_url
          /\ outbox' = outbox \cup
                 {[type |-> "invoice", invoice_id |-> Val(invoiceId), day |-> today]}
          /\ bPc' = "updateStatus"
          /\ bLast' = Call("transporter.sendMail", "returned") /\ NoFault
          /\ UNCHANGED caught
       \/ /\ caught' = Some("Email send failed")
          /\ bPc' = "logEmailFailed"
          /\ bLast' = Call("transporter.sendMail", "threw") /\ Fault
          /\ UNCHANGED outbox
    /\ UNCHANGED <<limits, today, contracts, invoices, validationLogs, auditLog,
                   bIsRunning, bCycles, bTrigger, dueContracts, bIdx, results, invoiceId,
                   validationResult, duplicateCheck, finalResult, remVars>>

\* await Invoice.updateStatus(invoiceId, 'sent')
UpdateStatusSent ==
    /\ bPc = "updateStatus"
    /\ \/ /\ invoices' = [invoices EXCEPT ![Val(invoiceId)].status = "sent"]
          /\ bPc' = "logEmailDelivery"
          /\ bLast' = Call("Invoice.updateStatus", "returned") /\ NoFault
          /\ UNCHANGED caught
       \/ /\ caught' = Some("Invoice.updateStatus failed")
          /\ bPc' = "logEmailFailed"
          /\ bLast' = Call("Invoice.updateStatus", "threw") /\ Fault
          /\ UNCHANGED invoices
    /\ UNCHANGED <<limits, today, contracts, validationLogs, auditLog, outbox,
                   bIsRunning, bCycles, bTrigger, dueContracts, bIdx, results, invoiceId,
                   validationResult, duplicateCheck, finalResult, remVars>>

\* await auditManager.logEmailDelivery(.., 'sent', ..), the return of
\* sendInvoiceEmail, and processContract up to step 7's await: results.successful++
LogEmailDelivery ==
    /\ bPc = "logEmailDelivery"
    /\ \/ /\ auditLog' = auditLog \cup {AuditRow("EMAIL_SENT", invoiceId, "sent")}
          /\ results' = [results EXCEPT !.successful = @ + 1]
          /\ bPc' = "updateNextBillingDate"
          /\ bLast' = Call("mailer.sendInvoiceEmail", "returned") /\ NoFault
          /\ UNCHANGED caught
       \/ /\ caught' = Some("AuditLog.create failed")
          /\ bPc' = "logEmailFailed"
          /\ bLast' = Call("auditManager.logEmailDelivery", "threw") /\ Fault
          /\ UNCHANGED <<auditLog, results>>
    /\ UNCHANGED <<limits, today, contracts, invoices, validationLogs, outbox,
                   bIsRunning, bCycles, bTrigger, dueContracts, bIdx, invoiceId,
                   validationResult, duplicateCheck, finalResult, remVars>>

\* the catch block: await auditManager.logEmailDelivery(.., 'failed', ..), then
\* throw error; a failed audit write throws its own error instead
LogEmailFailed ==
    /\ bPc = "logEmailFailed"
    /\ \/ /\ auditLog' = auditLog \cup {AuditRow("EMAIL_SENT", invoiceId, "failed")}
          /\ bLast' = Call("mailer.sendInvoiceEmail", "threw") /\ NoFault
          /\ ContractFailed(Val(caught))
       \/ /\ bLast' = Call("mailer.sendInvoiceEmail", "threw") /\ Fault
          /\ ContractFailed("AuditLog.create failed")
          /\ UNCHANGED auditLog
    /\ UNCHANGED <<limits, today, contracts, invoices, validationLogs, outbox,
                   bIsRunning, bCycles, bTrigger, dueContracts, remVars>>

(***************************************************************************)
(* processContract step 7 and the end of the cycle                         *)
(***************************************************************************)
\* calculateNextBillingDate on the row the query returned, then
\* await Contract.updateNextBillingDate
UpdateNextBillingDate ==
    /\ bPc = "updateNextBillingDate"
    /\ \/ /\ contracts' = [contracts EXCEPT
                             ![dueContracts[bIdx].id].next_billing_date =
                                 calculateNextBillingDate(
                                     dueContracts[bIdx].next_billing_date,
                                     dueContracts[bIdx].billing_frequency)]
          /\ bLast' = Call("Contract.updateNextBillingDate", "returned") /\ NoFault
          /\ NextContract
          /\ UNCHANGED results
       \/ /\ bLast' = Call("Contract.updateNextBillingDate", "threw") /\ Fault
          /\ ContractFailed("Contract.updateNextBillingDate failed")
          /\ UNCHANGED contracts
    /\ UNCHANGED <<limits, today, invoices, validationLogs, auditLog, outbox,
                   bIsRunning, bCycles, bTrigger, dueContracts, remVars>>

\* await auditManager.logAction(BILLING_CYCLE_COMPLETED); either way the
\* finally block runs (a throw is caught by the outer catch)
LogBillingSummary ==
    /\ bPc = "summary"
    /\ \/ /\ auditLog' = auditLog \cup
                 {AuditRow("BILLING_CYCLE_COMPLETED", Null,
                           [cycle      |-> bCycles,
                            total      |-> results.total,
                            successful |-> results.successful,
                            failed     |-> results.failed,
                            flagged    |-> results.flagged])}
          /\ bLast' = Call("auditManager.logAction", "returned") /\ NoFault
       \/ /\ bLast' = Call("auditManager.logAction", "threw") /\ Fault
          /\ UNCHANGED auditLog
    /\ BillingCycleEnds
    /\ UNCHANGED <<limits, today, contracts, invoices, validationLogs, outbox, bCycles, bTrigger, remVars>>

(***************************************************************************)
(* ReminderScheduler.executeReminderCycle                                  *)
(***************************************************************************)
NoReminderResults ==
    [total |-> 0, reminders_sent |-> 0, skipped |-> 0, failed |-> 0,
     by_urgency |-> [low |-> 0, medium |-> 0, high |-> 0, critical |-> 0]]

\* processOverdueInvoice up to its await: days overdue, the urgency bucket, the
\* cadence decision, and results.skipped++ when no reminder is due today
processOverdueInvoice(invoice, r) ==
    LET days == today - invoice.due_date
        r1   == [r EXCEPT !.by_urgency[urgencyOf(days)] = @ + 1]
        send == shouldSendReminder(days)
    IN  [daysOverdue |-> days,
         send        |-> send,
         results     |-> IF send THEN r1 ELSE [r1 EXCEPT !.skipped = @ + 1]]

\* The for loop from position i on, as far as it runs without waiting: the skipped
\* invoices return at once, the first invoice to remind (if any) is awaited.
RECURSIVE ReminderLoop(_, _, _)
ReminderLoop(list, i, r) ==
    IF i > Len(list)
    THEN [done |-> TRUE, idx |-> i, results |-> r, daysOverdue |-> 0]
    ELSE LET p == processOverdueInvoice(list[i], r)
         IN  IF p.send
             THEN [done |-> FALSE, idx |-> i, results |-> p.results,
                   daysOverdue |-> p.daysOverdue]
             ELSE ReminderLoop(list, i + 1, p.results)

\* the finally block, and the return of executeReminderCycle
ReminderCycleEnds ==
    /\ rIsRunning' = FALSE
    /\ rPc' = "idle"
    /\ overdueInvoices' = <<>>
    /\ rIdx' = 0
    /\ rResults' = NoReminderResults
    /\ rInvoice' = Null
    /\ daysOverdue' = 0
    /\ sendDecision' = Null

\* the loop goes on from position i with results r
ReminderLoopFrom(list, i, r) ==
    LET l == ReminderLoop(list, i, r)
    IN  IF l.done
        THEN ReminderCycleEnds
        ELSE /\ overdueInvoices' = list
             /\ rIdx' = l.idx
             /\ rResults' = l.results
             /\ daysOverdue' = l.daysOverdue
             /\ sendDecision' = Some(TRUE)
             /\ rInvoice' = Null
             /\ rPc' = "findInvoice"
             /\ UNCHANGED rIsRunning

\* the catch around processOverdueInvoice: results.failed++, continue
ReminderFailed ==
    ReminderLoopFrom(overdueInvoices, rIdx + 1, [rResults EXCEPT !.failed = @ + 1])

\* the return of sendReminderEmail: results.reminders_sent++, continue
ReminderSent ==
    ReminderLoopFrom(overdueInvoices, rIdx + 1,
                     [rResults EXCEPT !.reminders_sent = @ + 1])

\* triggerManually running the cycle body itself: only the cron callback
\* goes through the isRunning test
ExecuteReminderCycleManualBypass ==
    /\ \E source \in limits.sources :
          \/ /\ rIsRunning /\ source = "cron"
             /\ rLast' = Call("executeReminderCycle", "skipped")
             /\ rTrigger' = Trigger(rTrigger.cycle, source)
             /\ UNCHANGED <<rIsRunning, rPc, rCycles>>
          \/ /\ ~rIsRunning \/ source = "manual"
             /\ rCycles < limits.reminderCycles
             /\ rIsRunning' = TRUE
             /\ rPc' = "findOverdue"
             /\ rCycles' = rCycles + 1
             /\ rLast' = Call("executeReminderCycle", "started")
             /\ rTrigger' = Trigger(source, source)
    /\ UNCHANGED <<limits, faults, today, storeVars, billVars, remLocals>>

\* one isRunning flag for both schedulers: a reminder trigger is skipped
\* while a billing cycle runs, too
ExecuteReminderCycleSharedGuard ==
    /\ \E source \in limits.sources :
          \/ /\ rIsRunning \/ bIsRunning
             /\ rLast' = Call("executeReminderCycle", "skipped")
             /\ rTrigger' = Trigger(rTrigger.cycle, source)
             /\ UNCHANGED <<rIsRunning, rPc, rCycles>>
          \/ /\ ~(rIsRunning \/ bIsRunning)
             /\ rCycles < limits.reminderCycles
             /\ rIsRunning' = TRUE
             /\ rPc' = "findOverdue"
             /\ rCycles' = rCycles + 1
             /\ rLast' = Call("executeReminderCycle", "started")
             /\ rTrigger' = Trigger(source, source)
    /\ UNCHANGED <<limits, faults, today, storeVars, billVars, remLocals>>

\* A trigger of the reminder job: executeReminderCycle up to its first await.
ExecuteReminderCycle ==
    /\ \E source \in limits.sources :
          \/ /\ rIsRunning
             /\ rLast' = Call("executeReminderCycle", "skipped")
             /\ rTrigger' = Trigger(rTrigger.cycle, source)
             /\ UNCHANGED <<rIsRunning, rPc, rCycles>>
          \/ /\ ~rIsRunning
             /\ rCycles < limits.reminderCycles
             /\ rIsRunning' = TRUE
             /\ rPc' = "findOverdue"
             /\ rCycles' = rCycles + 1
             /\ rLast' = Call("executeReminderCycle", "started")
             /\ rTrigger' = Trigger(source, source)
    /\ UNCHANGED <<limits, faults, today, storeVars, billVars, remLocals>>

\* await Invoice.findOverdue()
FindOverdueInvoices ==
    /\ rPc = "findOverdue"
    /\ \/ /\ findOverdue = <<>>
          /\ rLast' = Call("Invoice.findOverdue", "returned") /\ NoFault
          /\ ReminderCycleEnds
       \/ /\ findOverdue # <<>>
          /\ rLast' = Call("Invoice.findOverdue", "returned") /\ NoFault
          /\ ReminderLoopFrom(findOverdue, 1,
                              [NoReminderResults EXCEPT !.total = Len(findOverdue)])
       \/ /\ rLast' = Call("Invoice.findOverdue", "threw") /\ Fault
          /\ ReminderCycleEnds
    /\ UNCHANGED <<limits, today, storeVars, billVars, rCycles, rTrigger>>

(***************************************************************************)
(* Mailer.sendReminderEmail, called by processOverdueInvoice               *)
(***************************************************************************)
\* await Invoice.findById; an invoice that is not overdue returns at once
FindInvoiceForReminder ==
    /\ rPc = "findInvoice"
    /\ \/ /\ rLast' = Call("Invoice.findById", "returned") /\ NoFault
          /\ IF today - invoices[overdueInvoices[rIdx].id].due_date <= 0
             THEN ReminderSent
             ELSE /\ rInvoice' = Some(invoices[overdueInvoices[rIdx].id])
                  /\ rPc' = "sendReminderMail"
                  /\ UNCHANGED <<rIsRunning, overdueInvoices, rIdx, rResults,
                                 daysOverdue, sendDecision>>
       \/ /\ rLast' = Call("Invoice.findById", "threw") /\ Fault
          /\ ReminderFailed
    /\ UNCHANGED <<limits, today, storeVars, billVars, rCycles, rTrigger>>

\* sendReminderEmail without the status update: the reminded invoice keeps the
\* status it had
SendReminderMailKeepsStatus ==
    /\ rPc = "sendReminderMail"
    /\ \/ /\ outbox' = outbox \cup
                 {[type |-> "reminder", invoice_id |-> overdueInvoices[rIdx].id,
                   day |-> today]}
          /\ rPc' = "logReminderSent"
          /\ rLast' = Call("transporter.sendMail", "returned") /\ NoFault
          /\ UNCHANGED <<rIsRunning, remLocals>>
       \/ /\ rLast' = Call("transporter.sendMail", "threw") /\ Fault
          /\ ReminderFailed
          /\ UNCHANGED outbox
    /\ UNCHANGED <<limits, today, contracts, invoices, validationLogs, auditLog, billVars, rCycles, rTrigger>>

\* await transporter.sendMail, then the status the row had when it was read decides
\* whether Invoice.updateStatus is called
SendReminderMail ==
    /\ rPc = "sendReminderMail"
    /\ \/ /\ outbox' = outbox \cup
                 {[type |-> "reminder", invoice_id |-> overdueInvoices[rIdx].id,
                   day |-> today]}
          /\ rPc' = IF Val(rInvoice).status # "overdue"
                    THEN "updateStatusOverdue" ELSE "logReminderSent"
          /\ rLast' = Call("transporter.sendMail", "returned") /\ NoFault
          /\ UNCHANGED <<rIsRunning, remLocals>>
       \/ /\ rLast' = Call("transporter.sendMail", "threw") /\ Fault
          /\ ReminderFailed
          /\ UNCHANGED outbox
    /\ UNCHANGED <<limits, today, contracts, invoices, validationLogs, auditLog, billVars, rCycles, rTrigger>>

\* await Invoice.updateStatus(invoiceId, 'overdue')
UpdateStatusOverdue ==
    /\ rPc = "updateStatusOverdue"
    /\ \/ /\ invoices' = [invoices EXCEPT ![overdueInvoices[rIdx].id].status = "overdue"]
          /\ rPc' = "logReminderSent"
          /\ rLast' = Call("Invoice.updateStatus", "returned") /\ NoFault
          /\ UNCHANGED <<rIsRunning, remLocals>>
       \/ /\ rLast' = Call("Invoice.updateStatus", "threw") /\ Fault
          /\ ReminderFailed
          /\ UNCHANGED invoices
    /\ UNCHANGED <<limits, today, contracts, validationLogs, auditLog, outbox, billVars, rCycles, rTrigger>>

\* await auditManager.logReminderSent, then the return to processOverdueInvoice
LogReminderSent ==
    /\ rPc = "logReminderSent"
    /\ \/ /\ auditLog' = auditLog \cup
                 {AuditRow("REMINDER_SENT", Some(overdueInvoices[rIdx].id), daysOverdue)}
          /\ rLast' = Call("mailer.sendReminderEmail", "returned") /\ NoFault
          /\ ReminderSent
       \/ /\ rLast' = Call("auditManager.logReminderSent", "threw") /\ Fault
          /\ ReminderFailed
          /\ UNCHANGED auditLog
    /\ UNCHANGED <<limits, today, contracts, invoices, validationLogs, outbox, billVars, rCycles, rTrigger>>

(***************************************************************************)
(* The clock                                                               *)
(***************************************************************************)
\* Midnight passes.
Tick ==
    /\ today < Today0 + limits.ticks
    /\ today' = today + 1
    /\ UNCHANGED <<limits, faults, storeVars, billVars, remVars>>

(***************************************************************************)
(* routes/payments: POST /api/payments                                     *)
(***************************************************************************)
\* The payments recorded so far: one PAYMENT_RECEIVED row each.
PaymentsRecorded ==
    Cardinality({a \in auditLog : a.action_type = "PAYMENT_RECEIVED"})

\* The handler: await Payment.create, await Invoice.updateStatus(invoice_id,
\* 'paid'), await auditManager.logPaymentReceived. It asks nothing about the
\* invoice's present status.
RecordPayment ==
    /\ PaymentsRecorded < limits.payments
    /\ \E i \in DOMAIN invoices :
          \/ /\ invoices' = [invoices EXCEPT ![i].status = "paid"]
             /\ auditLog' = auditLog \cup {AuditRow("PAYMENT_RECEIVED", Some(i), today)}
             /\ NoFault
          \/ /\ invoices' = [invoices EXCEPT ![i].status = "paid"]
             /\ invoices[i].status # "paid"
             /\ Fault
             /\ UNCHANGED auditLog
    /\ UNCHANGED <<limits, today, contracts, validationLogs, outbox, billVars, remVars>>

(***************************************************************************)
(* The system: both jobs, the stores and the clock                         *)
(***************************************************************************)
\* BillingScheduler after construction: isRunning = false, nothing in flight.
BillingIdle ==
    /\ bIsRunning = FALSE /\ bPc = "idle" /\ bCycles = 0 /\ bLast = NoCall
    /\ bTrigger = NoTrigger
    /\ dueContracts = <<>> /\ bIdx = 0 /\ results = NoResults
    /\ invoiceId = Null /\ caught = Null

\* No validateInvoice in flight.
ValidatorIdle ==
    /\ validationResult = Null /\ duplicateCheck = Null /\ finalResult = Null

\* ReminderScheduler after construction: isRunning = false, nothing in flight.
ReminderIdle ==
    /\ rIsRunning = FALSE /\ rPc = "idle" /\ rCycles = 0 /\ rLast = NoCall
    /\ rTrigger = NoTrigger
    /\ overdueInvoices = <<>> /\ rIdx = 0 /\ rResults = NoReminderResults
    /\ rInvoice = Null

\* No processOverdueInvoice in flight.
CadenceIdle ==
    /\ daysOverdue = 0 /\ sendDecision = Null

\* The contracts table when the service starts: contract 1 is monthly, contract 2,
\* of the same customer, is a one-time or a quarterly contract, and contract 3 was
\* deactivated. Either contract 1 is due today and contract 2 since yesterday, or
\* both fall due tomorrow.
InitialContracts ==
    {[c \in ContractIds |->
        CASE c = 1 -> [customer_id |-> "A", billing_frequency |-> "monthly",
                       next_billing_date |-> Some(Today0 + due.first),
                       amount |-> 500000, tax_rate |-> 850, discount_percentage |-> 0,
                       is_active |-> TRUE]
          [] c = 2 -> [customer_id |-> "A", billing_frequency |-> due.frequency,
                       next_billing_date |-> Some(Today0 + due.second),
                       amount |-> 4999, tax_rate |-> 825, discount_percentage |-> 1000,
                       is_active |-> TRUE]
          [] c = 3 -> [customer_id |-> "B", billing_frequency |-> "yearly",
                       next_billing_date |-> Some(Today0 - 40),
                       amount |-> 10000, tax_rate |-> 0, discount_percentage |-> 0,
                       is_active |-> FALSE]] :
     due \in {[first |-> 0, frequency |-> "one-time", second |-> -1],
              [first |-> 1, frequency |-> "quarterly", second |-> 1]}}

\* The invoices table when the service starts: two earlier invoices of contract 3.
\* The first was sent and fell due 3 days ago, or was flagged, never sent, and fell
\* due 2 days ago, or was sent and has been paid; the second was sent and falls due
\* today.
InitialInvoices ==
    {<<[contract_id |-> 3, customer_id |-> "B",
        issue_date |-> Today0 - first.age - DueDays, due_date |-> Today0 - first.age,
        subtotal |-> 10000, tax_amount |-> 0, discount_amount |-> 0, total_amount |-> 10000,
        status |-> first.status, pdf_url |-> TRUE,
        ai_validation_status |-> first.ai, ai_anomaly_score |-> first.score],
       [contract_id |-> 3, customer_id |-> "B",
        issue_date |-> Today0 - DueDays, due_date |-> Today0,
        subtotal |-> 10000, tax_amount |-> 0, discount_amount |-> 0, total_amount |-> 10000,
        status |-> "sent", pdf_url |-> TRUE,
        ai_validation_status |-> "validated", ai_anomaly_score |-> 0]>> :
     first \in {[age |-> 3, status |-> "sent", ai |-> "validated", score |-> 0],
                [age |-> 2, status |-> "pending", ai |-> "flagged", score |-> 80],
                [age |-> 3, status |-> "paid", ai |-> "validated", score |-> 0]}}

\* The tables on day Today0: the logs are empty.
StoresAtStart ==
    /\ today = Today0
    /\ faults = 0
    /\ contracts \in InitialContracts
    /\ invoices \in InitialInvoices
    /\ validationLogs = {}
    /\ auditLog = {}
    /\ outbox = {}

\* The service starts on day Today0 with both schedulers idle.
StartOfService ==
    /\ StoresAtStart
    /\ BillingIdle /\ ValidatorIdle
    /\ ReminderIdle /\ CadenceIdle

Init ==
    /\ limits = Limits(SystemCycles, SystemCycles, SystemFaults, MaxTicks, 0)
    /\ StartOfService

\* The billing job on its own, on one day: the reminder job is never triggered.
InitBilling ==
    /\ limits = Limits(MaxBillingCycles, 0, MaxFaults, 0, 0)
    /\ StartOfService

BillingNext ==
    \/ ExecuteBillingCycle
    \/ FindDueContracts
    \/ CreateInvoice
    \/ LogInvoiceGeneration
    \/ GeneratePDF
    \/ UploadPDF
    \/ UpdatePdfInfo
    \/ PerformValidation
    \/ CheckDuplicates
    \/ SaveValidationLog
    \/ UpdateAiValidation
    \/ LogAIValidation
    \/ SendMail
    \/ UpdateStatusSent
    \/ LogEmailDelivery
    \/ LogEmailFailed
    \/ UpdateNextBillingDate
    \/ LogBillingSummary

ReminderNext ==
    \/ ExecuteReminderCycle
    \/ FindOverdueInvoices
    \/ FindInvoiceForReminder
    \/ SendReminderMail
    \/ UpdateStatusOverdue
    \/ LogReminderSent

Next ==
    \/ BillingNext
    \/ ReminderNext
    \/ Tick

Spec == Init /\ [][Next]_vars

SpecBilling == InitBilling /\ [][BillingNext]_vars

\* checkDuplicates when the customer has no other recent invoice: it returns
\* without asking the AI
CheckDuplicatesUnasked ==
    CheckDuplicates /\ recentInvoices(Val(invoiceId)) = {}

\* The awaits of a billing cycle that settle whenever the call they wait for
\* answers or fails: every await but the two on the AI, model.generateContent,
\* which is called without a timeout and may never answer.
SettlingSteps ==
    \/ FindDueContracts
    \/ CheckDuplicatesUnasked
    \/ CreateInvoice
    \/ LogInvoiceGeneration
    \/ GeneratePDF
    \/ UploadPDF
    \/ UpdatePdfInfo
    \/ SaveValidationLog
    \/ UpdateAiValidation
    \/ LogAIValidation
    \/ SendMail
    \/ UpdateStatusSent
    \/ LogEmailDelivery
    \/ LogEmailFailed
    \/ UpdateNextBillingDate
    \/ LogBillingSummary

\* The billing job with every call that is sure to come back coming back.
SpecBillingLive == SpecBilling /\ WF_vars(SettlingSteps)

\* The same with an AI that always answers or fails in the end.
SpecBillingAnswered ==
    SpecBillingLive /\ WF_vars(PerformValidation) /\ WF_vars(CheckDuplicates)

\* The reminder job, the clock and the payments route: the billing job is never
\* triggered.
InitReminder ==
    /\ limits = Limits(0, MaxReminderCycles, MaxFaults, MaxTicks, MaxPayments)
    /\ StartOfService

SpecReminder == InitReminder /\ [][ReminderNext \/ Tick \/ RecordPayment]_vars

\* An invoice of contract 3 that fell due so many days before Today0.
InvoiceDueSince(age, status) ==
    [contract_id |-> 3, customer_id |-> "B",
     issue_date |-> Today0 - age - DueDays, due_date |-> Today0 - age,
     subtotal |-> 10000, tax_amount |-> 0, discount_amount |-> 0, total_amount |-> 10000,
     status |-> status, pdf_url |-> TRUE,
     ai_validation_status |-> IF status = "pending" THEN "flagged" ELSE "validated",
     ai_anomaly_score |-> IF status = "pending" THEN 80 ELSE 0]

\* Three invoices of different ages on both sides of every limit of the urgency
\* buckets and of the overdue query, in the statuses an invoice can have.
OverdueInvoices ==
    {<<InvoiceDueSince(a1, s1), InvoiceDueSince(a2, s2), InvoiceDueSince(a3, s3)>> :
        a1 \in {35, 30}, a2 \in {14, 9, 7}, a3 \in {3, 0, -2},
        s1 \in {"sent", "overdue"}, s2 \in {"pending", "sent"}, s3 \in {"sent", "paid"}}

\* The reminder job and the clock over a table of invoices of every age.
InitOverdue ==
    /\ limits = Limits(0, MaxReminderCycles, MaxFaults, MaxTicks, 0)
    /\ today = Today0
    /\ faults = 0
    /\ contracts \in InitialContracts
    /\ contracts[2].billing_frequency = "one-time"
    /\ invoices \in OverdueInvoices
    /\ validationLogs = {} /\ auditLog = {} /\ outbox = {}
    /\ BillingIdle /\ ValidatorIdle
    /\ ReminderIdle /\ CadenceIdle

SpecOverdue == InitOverdue /\ [][ReminderNext \/ Tick]_vars

\* Both jobs on one day, each triggered by its cron callback and by
\* triggerManually: two contracts are due and one sent invoice is overdue.
InitTriggers ==
    /\ limits = [Limits(SystemCycles, MaxReminderCycles, MaxFaults, 0, 0)
                    EXCEPT !.sources = Sources]
    /\ StartOfService
    /\ contracts[2].billing_frequency = "one-time"
    /\ invoices[1].status = "sent"

SpecTriggers == InitTriggers /\ [][BillingNext \/ ReminderNext]_vars

(***************************************************************************)
(* combineResults on its own: every correctness verdict with every         *)
(* duplicate-check verdict                                                 *)
(***************************************************************************)
\* The correctness verdicts: any status, any score, without flags and with one.
Verdicts ==
    {[validation_status |-> st, anomaly_score |-> sc, flags |-> shape.flags,
      suggestions |-> shape.suggestions, confidence |-> shape.confidence] :
     st \in {"validated", "flagged", "failed"},
     sc \in 0..MaxScore,
     shape \in {[flags |-> <<>>, suggestions |-> <<>>, confidence |-> 95],
                [flags |-> << <<"Amount does not match contract", Null>> >>,
                 suggestions |-> <<"Check the amount">>, confidence |-> 0]}}

\* The duplicate-check verdicts: a duplicate of invoice 1 or none, any similarity.
DuplicateVerdicts ==
    {[is_duplicate |-> dup, duplicate_of |-> IF dup THEN Some(1) ELSE Null,
      similarity_score |-> sim, explanation |-> "Compared with recent invoices"] :
     dup \in BOOLEAN, sim \in 0..MaxScore}

\* One store, no job running.
QuietSystem ==
    /\ limits = Limits(0, 0, 0, 0, 0)
    /\ StoresAtStart
    /\ contracts[2].billing_frequency = "one-time"
    /\ invoices[1].status = "sent"
    /\ BillingIdle
    /\ ReminderIdle

InitCombine ==
    /\ QuietSystem
    /\ CadenceIdle
    /\ validationResult \in Verdicts
    /\ duplicateCheck \in DuplicateVerdicts
    /\ finalResult = Null

\* const finalResult = this.combineResults(validationResult, duplicateCheck)
CombineResults ==
    /\ finalResult = Null
    /\ finalResult' = combineResults(validationResult, duplicateCheck)
    /\ UNCHANGED <<limits, faults, today, storeVars, bIsRunning, bPc, bCycles, bTrigger, bLast,
                   dueContracts, bIdx, results, invoiceId, validationResult,
                   duplicateCheck, caught, remVars>>

SpecCombine == InitCombine /\ [][CombineResults]_vars

(***************************************************************************)
(* shouldSendReminder on its own: every days_overdue of the range          *)
(***************************************************************************)
InitCadence ==
    /\ QuietSystem
    /\ ValidatorIdle
    /\ daysOverdue \in -MinDaysBack..MaxDaysOverdue
    /\ sendDecision = Null

\* const shouldSendReminder = this.shouldSendReminder(daysOverdue)
ShouldSendReminder ==
    /\ sendDecision = Null
    /\ sendDecision' = Some(shouldSendReminder(daysOverdue))
    /\ UNCHANGED <<limits, faults, today, storeVars, billVars, rIsRunning, rPc, rCycles, rTrigger,
                   rLast, overdueInvoices, rIdx, rResults, rInvoice, daysOverdue>>

SpecCadence == InitCadence /\ [][ShouldSendReminder]_vars

(***************************************************************************)
(* calculateInvoiceAmounts on its own: contract 1 with every amount, tax    *)
(* rate and discount of a small range                                      *)
(***************************************************************************)
\* contracts.amount, in cents
ContractAmounts == {1, 100, 1000, 4999, 12345, 500000}

\* contracts.tax_rate, in hundredths of a percent
TaxRates == {0, 50, 500, 825, 850, 1875}

\* contracts.discount_percentage, in hundredths of a percent
DiscountPercentages == {0, 250, 333, 1000, 2500}

InitAmounts ==
    /\ limits = Limits(0, 0, 0, 0, 0)
    /\ today = Today0
    /\ faults = 0
    /\ \E c \in InitialContracts, a \in ContractAmounts, t \in TaxRates,
          d \in DiscountPercentages :
          contracts = [c EXCEPT ![1].amount = a, ![1].tax_rate = t,
                                ![1].discount_percentage = d,
                                ![1].next_billing_date = Some(Today0)]
    /\ contracts[2].billing_frequency = "one-time"
    /\ invoices = <<>>
    /\ validationLogs = {} /\ auditLog = {} /\ outbox = {}
    /\ BillingIdle /\ ValidatorIdle
    /\ ReminderIdle /\ CadenceIdle

\* const invoiceData = this.calculateInvoiceAmounts(contract), and the row
\* Invoice.create stores
CalculateInvoiceAmounts ==
    /\ invoices = <<>>
    /\ \E k \in DOMAIN findDueForBilling, ties \in Ties :
          /\ findDueForBilling[k].id = 1
          /\ invoices' = <<calculateInvoiceAmounts(findDueForBilling[k], ties)>>
    /\ UNCHANGED <<limits, faults, today, contracts, validationLogs, auditLog, outbox,
                   billVars, remVars>>

SpecAmounts == InitAmounts /\ [][CalculateInvoiceAmounts]_vars

(***************************************************************************)
(* calculateNextBillingDate on its own: contract 1 with every frequency    *)
(* and every next_billing_date from 2024-01-01 to 2024-05-30, advanced     *)
(* again and again                                                         *)
(***************************************************************************)
Frequencies == {"monthly", "quarterly", "yearly", "one-time"}

StartDays == (Today0 - MaxStartBack)..(Today0 + MaxStartSpan)

InitDates ==
    /\ limits = Limits(0, 0, 0, 0, 0)
    /\ today = Today0
    /\ faults = 0
    /\ \E c \in InitialContracts, d \in StartDays, f \in Frequencies :
          contracts = [c EXCEPT ![1].next_billing_date = Some(d),
                                ![1].billing_frequency = f]
    /\ contracts[2].billing_frequency = "one-time"
    /\ invoices \in InitialInvoices /\ invoices[1].status = "sent"
    /\ validationLogs = {} /\ auditLog = {} /\ outbox = {}
    /\ BillingIdle /\ ValidatorIdle
    /\ ReminderIdle /\ CadenceIdle

\* processContract step 7 for contract 1: calculateNextBillingDate of the date
\* the contract has, and the row Contract.updateNextBillingDate stores
CalculateNextBillingDate ==
    /\ contracts[1].next_billing_date # Null
    /\ Val(contracts[1].next_billing_date) < Today0 + MaxAdvanceDays
    /\ contracts' = [contracts EXCEPT
                        ![1].next_billing_date =
                            calculateNextBillingDate(Val(contracts[1].next_billing_date),
                                                     contracts[1].billing_frequency)]
    /\ UNCHANGED <<limits, faults, today, invoices, validationLogs, auditLog, outbox,
                   billVars, remVars>>

SpecDates == InitDates /\ [][CalculateNextBillingDate]_vars

(***************************************************************************)
(* The claims                                                              *)
(***************************************************************************)
\* The invoices the billing job has created for contract c.
InvoicesCreatedFor(c) ==
    {i \in DOMAIN invoices : i > 2 /\ invoices[i].contract_id = c}

\* C1: a trigger of executeBillingCycle that arrives while an invocation is
\* running is skipped: it queries nothing, creates nothing, leaves the running
\* invocation where it is and is not remembered; so a contract gets at most one
\* invoice per cycle that started.
C1_ReentrantTriggerSkipped ==
    /\ [][(bIsRunning /\ bLast'.op = "executeBillingCycle") =>
            /\ bLast'.outcome = "skipped"
            /\ UNCHANGED <<storeVars, bIsRunning, bPc, bCycles, billLocals>>]_vars
    /\ [](\A c \in ContractIds : Cardinality(InvoicesCreatedFor(c)) <= bCycles)

\* C1: a trigger was skipped while the first cycle waited for the PDF of an invoice.
C1_Witness ==
    /\ bLast = Call("executeBillingCycle", "skipped")
    /\ bPc = "generatePDF"
    /\ bCycles = 1
    /\ Len(invoices) = 3

\* C2: whenever an invocation of executeBillingCycle or executeReminderCycle
\* that took the guard has returned (on an empty list, after the last item, on a
\* failed query or on a failed summary write), isRunning is false again, so the
\* next trigger is not skipped.
C2_GuardReleasedOnReturn ==
    /\ bPc = "idle" => ~bIsRunning
    /\ rPc = "idle" => ~rIsRunning

\* C2: the billing cycle has returned because its query failed and the reminder
\* cycle has returned after its query, both with the guard released.
C2_Witness ==
    /\ bPc = "idle" /\ bLast = Call("Contract.findDueForBilling", "threw")
    /\ rPc = "idle" /\ rCycles = 1 /\ rLast.outcome = "returned"
    /\ ~bIsRunning /\ ~rIsRunning

\* The awaits of processContract and of the functions it calls.
ItemSteps ==
    {"create", "logGeneration", "generatePDF", "uploadPDF", "updatePdfInfo",
     "performValidation", "checkDuplicates", "saveValidationLog", "updateAiValidation",
     "logAIValidation", "sendMail", "updateStatus", "logEmailDelivery", "logEmailFailed",
     "updateNextBillingDate"}

\* An error leaves processContract: a call threw and no catch inside
\* validateInvoice or sendInvoiceEmail took it.
ErrorLeavesProcessContract ==
    /\ bPc \in ItemSteps
    /\ bLast'.outcome = "threw"
    /\ bPc' \notin {"checkDuplicates", "saveValidationLog", "logEmailFailed"}

\* C3: an error that leaves processContract for the contract at position i is
\* caught in the loop: failed goes up by one, the contract's id is recorded with
\* the message, the cycle keeps running and goes on with position i + 1 (or
\* with the summary after the last contract); the summary is reached only
\* after every due contract had its turn.
C3_FailureIsolatedPerContract ==
    /\ [][ErrorLeavesProcessContract =>
            /\ results'.failed = results.failed + 1
            /\ Len(results'.errors) = Len(results.errors) + 1
            /\ results'.errors[Len(results'.errors)].contract_id = dueContracts[bIdx].id
            /\ SubSeq(results'.errors, 1, Len(results.errors)) = results.errors
            /\ bIsRunning' /\ dueContracts' = dueContracts
            /\ bIdx' = bIdx + 1
            /\ bPc' = IF bIdx < Len(dueContracts) THEN "create" ELSE "summary"]_vars
    /\ [](bPc = "summary" =>
            /\ bIsRunning
            /\ bIdx = Len(dueContracts) + 1
            /\ results.total = Len(dueContracts))

\* C3: the first of two due contracts failed and the second was billed and sent.
C3_Witness ==
    /\ bPc = "summary"
    /\ Len(dueContracts) = 2
    /\ results.failed = 1 /\ results.successful = 1
    /\ results.errors[1].contract_id = dueContracts[1].id

\* The awaits of sendInvoiceEmail.
MailerSteps == {"sendMail", "updateStatus", "logEmailDelivery", "logEmailFailed"}

\* The invoice emails delivered for invoice i.
InvoiceEmails(i) == {m \in outbox : m.type = "invoice" /\ m.invoice_id = i}

\* C4: when validateInvoice returns, sendInvoiceEmail is called exactly if the
\* combined status is validated; otherwise no email is sent, the invoice row is
\* left as it is and the contract is counted as flagged, not as failed. So the
\* mailer only ever works on a validated verdict, every delivered invoice email
\* belongs to an invoice persisted as validated, and an invoice persisted as
\* flagged or failed stays pending and unsent.
C4_EmailIffValidated ==
    /\ [][(bPc = "logAIValidation" /\ bLast'.op = "aiValidator.validateInvoice") =>
            IF finalResult.validation_status = "validated"
            THEN bPc' = "sendMail" /\ results' = results
            ELSE /\ bPc' = "updateNextBillingDate"
                 /\ results' = [results EXCEPT !.flagged = @ + 1]
                 /\ UNCHANGED <<invoices, outbox>>]_vars
    /\ [](/\ bPc \in MailerSteps => finalResult.validation_status = "validated"
          /\ (bPc = "updateNextBillingDate" /\ finalResult.validation_status = "validated")
                 => /\ InvoiceEmails(Val(invoiceId)) # {}
                    /\ invoices[Val(invoiceId)].status = "sent"
          /\ \A m \in outbox : m.type = "invoice" =>
                 invoices[m.invoice_id].ai_validation_status = "validated"
          /\ \A i \in DOMAIN invoices :
                 (i > 2 /\ invoices[i].ai_validation_status \in {"flagged", "failed"}) =>
                     invoices[i].status = "pending" /\ InvoiceEmails(i) = {})

\* C4: of two due contracts one invoice was validated and sent, the other was
\* flagged, withheld and counted as flagged.
C4_Witness ==
    /\ bPc = "summary"
    /\ results.successful = 1 /\ results.flagged = 1 /\ results.failed = 0
    /\ \E i, j \in DOMAIN invoices :
          /\ i > 2 /\ invoices[i].status = "sent" /\ InvoiceEmails(i) # {}
          /\ j > 2 /\ invoices[j].ai_validation_status = "flagged"
          /\ invoices[j].status = "pending" /\ InvoiceEmails(j) = {}

\* The contracts of this cycle whose processContract threw.
FailedContracts == {results.errors[k].contract_id : k \in DOMAIN results.errors}

\* The due contracts of this cycle, as the query returned them, that were
\* processed without an error.
ProcessedContracts ==
    {dueContracts[k] : k \in {n \in 1..(bIdx - 1) : n <= Len(dueContracts)}}

\* C5: every due contract that was processed to the end, whether its invoice was
\* validated and sent or flagged and withheld, has its next_billing_date moved
\* one interval on from the date the query returned: to a later date, or to null
\* for a one-time contract.
C5_DateAdvancedWhateverTheVerdict ==
    \A c \in ProcessedContracts :
        c.id \notin FailedContracts =>
            /\ contracts[c.id].next_billing_date =
                   calculateNextBillingDate(c.next_billing_date, c.billing_frequency)
            /\ IF c.billing_frequency = "one-time"
               THEN contracts[c.id].next_billing_date = Null
               ELSE /\ contracts[c.id].next_billing_date # Null
                    /\ Val(contracts[c.id].next_billing_date) > c.next_billing_date

\* C5: of two due contracts one was flagged and one was sent, and both dates moved.
C5_Witness ==
    /\ bPc = "summary"
    /\ results.flagged = 1 /\ results.successful = 1 /\ results.failed = 0
    /\ contracts[2].next_billing_date = Null
    /\ Val(contracts[1].next_billing_date) > Today0
    /\ \E i \in DOMAIN invoices :
          /\ invoices[i].contract_id = 1
          /\ invoices[i].ai_validation_status = "flagged"

\* C6: when sending the email of a created and validated invoice fails, the item
\* is counted as failed, the invoice stays in the table, and by the end of the
\* cycle the contract's next_billing_date has been moved one interval on.
C6_DateAdvancedDespiteEmailFailure ==
    bPc = "summary" =>
        \A k \in DOMAIN results.errors :
            results.errors[k].error = "Email send failed" =>
                \E n \in DOMAIN dueContracts :
                    LET c == dueContracts[n]
                    IN  /\ c.id = results.errors[k].contract_id
                        /\ results.failed >= 1
                        /\ \E i \in InvoicesCreatedFor(c.id) :
                               invoices[i].ai_validation_status = "validated"
                        /\ contracts[c.id].next_billing_date =
                               calculateNextBillingDate(c.next_billing_date,
                                                        c.billing_frequency)

\* C7: when the AI call of performValidation fails, validateInvoice goes on, the
\* verdict it returns and persists on the invoice has status failed and score
\* 100, and the invoice is not emailed.
C7_FallbackVerdictIsFailed ==
    (bPc \in ItemSteps /\ validationResult = FallbackVerdict /\ finalResult # Null) =>
        /\ finalResult.validation_status = "failed"
        /\ finalResult.anomaly_score = 100
        /\ bPc \notin MailerSteps
        /\ InvoiceEmails(Val(invoiceId)) = {}
        /\ bPc \in {"logAIValidation", "updateNextBillingDate"} =>
              /\ invoices[Val(invoiceId)].ai_validation_status = "failed"
              /\ invoices[Val(invoiceId)].ai_anomaly_score = 100

\* C8: for every correctness verdict, a duplicate-check verdict with
\* is_duplicate = true makes combineResults return status flagged, the larger of
\* the correctness score and 90 as score, and the correctness flags followed by
\* one flag that names the duplicate.
C8_DuplicateEscalates ==
    (finalResult # Null /\ duplicateCheck.is_duplicate) =>
        /\ finalResult.validation_status = "flagged"
        /\ finalResult.anomaly_score >= 90
        /\ finalResult.anomaly_score >= validationResult.anomaly_score
        /\ finalResult.anomaly_score \in {90, validationResult.anomaly_score}
        /\ Len(finalResult.flags) = Len(validationResult.flags) + 1
        /\ SubSeq(finalResult.flags, 1, Len(validationResult.flags)) =
               validationResult.flags
        /\ finalResult.flags[Len(finalResult.flags)] =
               <<"Possible duplicate of invoice", duplicateCheck.duplicate_of>>

\* C8: a verdict validated with score 0 was combined with a duplicate verdict.
C8_Witness ==
    /\ finalResult # Null
    /\ duplicateCheck.is_duplicate
    /\ validationResult.validation_status = "validated"
    /\ validationResult.anomaly_score = 0
    /\ finalResult.validation_status = "flagged"
    /\ finalResult.anomaly_score = 90

\* C9: the status combineResults returns is flagged exactly if the final score
\* is at least 70 and validated otherwise, whatever status the correctness
\* verdict carried; a non-duplicate with similarity above 70 and a correctness
\* score below 60 ends with score 60 and status validated.
C9_StatusRederivedFromScore ==
    finalResult # Null =>
        /\ finalResult.validation_status =
               IF finalResult.anomaly_score >= 70 THEN "flagged" ELSE "validated"
        /\ (/\ ~duplicateCheck.is_duplicate
            /\ duplicateCheck.similarity_score > 70
            /\ validationResult.anomaly_score < 60)
               => /\ finalResult.anomaly_score = 60
                  /\ finalResult.validation_status = "validated"

\* C9: a verdict that came in as flagged with a score below 60 and a similar,
\* non-duplicate invoice left as validated with score 60.
C9_Witness ==
    /\ finalResult # Null
    /\ validationResult.validation_status = "flagged"
    /\ validationResult.anomaly_score = 10
    /\ ~duplicateCheck.is_duplicate /\ duplicateCheck.similarity_score = 71
    /\ finalResult.validation_status = "validated"
    /\ finalResult.anomaly_score = 60

\* C10 as stated: for days_overdue in 1..40 shouldSendReminder is true exactly
\* on days 3, 7, 10, 14, 20, 25, 30 and 35, and it is false for days_overdue <= 0.
C10_CadenceAsStated ==
    sendDecision # Null =>
        /\ daysOverdue \in 1..40 =>
              (Val(sendDecision) <=> daysOverdue \in {3, 7, 10, 14, 20, 25, 30, 35})
        /\ daysOverdue <= 0 => ~Val(sendDecision)

\* C10 as amended: for days_overdue in 1..40 shouldSendReminder is true exactly
\* on days 3, 7, 10, 14, 15, 20, 25, 30 and 35, and it is false for
\* days_overdue <= 0.
C10_CadenceWithDay15 ==
    sendDecision # Null =>
        /\ daysOverdue \in 1..40 =>
              (Val(sendDecision) <=> daysOverdue \in {3, 7, 10, 14, 15, 20, 25, 30, 35})
        /\ daysOverdue <= 0 => ~Val(sendDecision)

\* C10: the policy was asked about day 15 and answered yes.
C10_Witness ==
    /\ daysOverdue = 15
    /\ sendDecision = Some(TRUE)

\* C11: once an invoice is paid, no step of a cycle or of a send changes its
\* status again; a payment recorded after the overdue query and before the
\* invoice's reminder is not overwritten with overdue.
C11_PaidStaysPaid ==
    [][\A i \in DOMAIN invoices :
          invoices[i].status = "paid" => invoices'[i].status = "paid"]_vars

\* The audit writes of the billing cycle.
AuditCalls ==
    {"auditManager.logInvoiceGeneration", "auditManager.logAIValidation",
     "auditManager.logEmailDelivery", "auditManager.logAction"}

\* C12: a failed audit write never changes the course of the billing cycle: the
\* step it belongs to goes on as when the write succeeds, the contract is not
\* counted as failed for it, and no contract's error is that of the audit sink.
C12_AuditFailureChangesNothing ==
    /\ [][(bLast'.outcome = "threw" /\ bLast'.op \in AuditCalls /\ bPc \in ItemSteps) =>
            /\ results'.failed = results.failed
            /\ bIdx' = bIdx
            /\ bPc' \in ItemSteps \ {"logEmailFailed"}]_vars
    /\ [](\A k \in DOMAIN results.errors :
             results.errors[k].error # "AuditLog.create failed")

(***************************************************************************)
(* C13: triggerManually goes through the same guarded entry point as the   *)
(* cron callback. A trigger of a job, from either caller, that finds a     *)
(* cycle of that job running (whoever started it) is skipped: it changes   *)
(* no table and nothing of the running cycle, which stays the cycle of its *)
(* own caller. A cycle body starts only when none of the job is running,   *)
(* so at most one executes per job at any time.                            *)
(***************************************************************************)
BillingTriggered(source) ==
    /\ bLast'.op = "executeBillingCycle"
    /\ bTrigger'.last = source
    /\ <<bLast, bTrigger>>' # <<bLast, bTrigger>>

ReminderTriggered(source) ==
    /\ rLast'.op = "executeReminderCycle"
    /\ rTrigger'.last = source
    /\ <<rLast, rTrigger>>' # <<rLast, rTrigger>>

C13_ManualTriggerSharesGuard ==
    /\ [][\A source \in Sources :
            /\ BillingTriggered(source) =>
                  IF bIsRunning
                  THEN /\ bLast'.outcome = "skipped"
                       /\ bTrigger'.cycle = bTrigger.cycle
                       /\ UNCHANGED <<storeVars, bIsRunning, bPc, bCycles, billLocals>>
                  ELSE /\ bLast'.outcome = "started"
                       /\ bTrigger'.cycle = source
                       /\ bPc = "idle" /\ bPc' = "findDue"
            /\ ReminderTriggered(source) =>
                  IF rIsRunning
                  THEN /\ rLast'.outcome = "skipped"
                       /\ rTrigger'.cycle = rTrigger.cycle
                       /\ UNCHANGED <<storeVars, rIsRunning, rPc, rCycles, remLocals>>
                  ELSE /\ rLast'.outcome = "started"
                       /\ rTrigger'.cycle = source
                       /\ rPc = "idle" /\ rPc' = "findOverdue"]_vars
    /\ [][/\ bCycles' # bCycles => ~bIsRunning /\ bPc = "idle"
          /\ rCycles' # rCycles => ~rIsRunning /\ rPc = "idle"]_vars

\* a manual trigger was skipped during a scheduled billing cycle, and a cron
\* trigger during a manually started reminder cycle
C13_Witness ==
    /\ bIsRunning /\ bTrigger = Trigger("cron", "manual")
    /\ bLast = Call("executeBillingCycle", "skipped")
    /\ rIsRunning /\ rTrigger = Trigger("manual", "cron")
    /\ rLast = Call("executeReminderCycle", "skipped")

(***************************************************************************)
(* C14: the guards of the two jobs are independent. A billing trigger is   *)
(* skipped exactly when a billing cycle is running and a reminder trigger  *)
(* exactly when a reminder cycle is running, whatever the other job does;  *)
(* a step of one job never touches the flag or the cycle of the other.     *)
(***************************************************************************)
C14_GuardsIndependent ==
    /\ [][/\ (\E source \in Sources : BillingTriggered(source)) =>
                /\ bLast'.outcome = "skipped" <=> bIsRunning
                /\ bLast'.outcome = "started" <=> ~bIsRunning
                /\ UNCHANGED remVars
          /\ (\E source \in Sources : ReminderTriggered(source)) =>
                /\ rLast'.outcome = "skipped" <=> rIsRunning
                /\ rLast'.outcome = "started" <=> ~rIsRunning
                /\ UNCHANGED billVars]_vars
    /\ [][/\ bIsRunning' # bIsRunning => UNCHANGED remVars
          /\ rIsRunning' # rIsRunning => UNCHANGED billVars]_vars

\* a cycle of each job is running: the one triggered second was not skipped,
\* and the billing job has since been triggered again and skipped
C14_Witness ==
    /\ bIsRunning /\ rIsRunning
    /\ rPc = "sendReminderMail"
    /\ bLast = Call("executeBillingCycle", "skipped")
    /\ rLast # Call("executeReminderCycle", "skipped")

(***************************************************************************)
(* C15: for each due contract the steps run in the fixed order create,     *)
(* render the PDF, store it and record its location, validate, send (only  *)
(* if validated), advance the billing date. A step starts only when the    *)
(* one before it has returned; an error that leaves a step ends the        *)
(* contract's processing at once, so that no later step runs for it.       *)
(***************************************************************************)
\* The step of processContract an await belongs to.
StepOf(pc) ==
    CASE pc \in {"create", "logGeneration"} -> 1
      [] pc = "generatePDF" -> 2
      [] pc \in {"uploadPDF", "updatePdfInfo"} -> 3
      [] pc \in {"performValidation", "checkDuplicates", "saveValidationLog",
                 "updateAiValidation", "logAIValidation"} -> 4
      [] pc \in {"sendMail", "updateStatus", "logEmailDelivery", "logEmailFailed"} -> 5
      [] pc = "updateNextBillingDate" -> 6
      [] OTHER -> 0

\* The rows the billing job has created.
CreatedInvoices == {i \in DOMAIN invoices : invoices[i].issue_date >= Today0}

SummaryRows(n) ==
    {a \in auditLog : a.action_type = "BILLING_CYCLE_COMPLETED" /\ a.detail.cycle = n}

AllSummaryRows == {a \in auditLog : a.action_type = "BILLING_CYCLE_COMPLETED"}

C16_OneSummaryAfterAllContracts ==
    /\ [][(bPc # "summary" /\ bPc' = "summary") =>
            /\ bPc \in ItemSteps
            /\ dueContracts' = dueContracts /\ Len(dueContracts) >= 1
            /\ bIdx = Len(dueContracts) /\ bIdx' = Len(dueContracts) + 1
            /\ results'.total = Len(dueContracts)
            /\ results'.successful + results'.flagged + results'.failed >= results'.total
            /\ SummaryRows(bCycles) = {}]_vars
    /\ [][AllSummaryRows' # AllSummaryRows =>
            /\ bPc = "summary"
            /\ bLast' = Call("auditManager.logAction", "returned")
            /\ AllSummaryRows' = AllSummaryRows \cup SummaryRows(bCycles)'
            /\ \E a \in auditLog' :
                  /\ SummaryRows(bCycles)' = {a}
                  /\ a.detail.total = results.total
                  /\ a.detail.successful = results.successful
                  /\ a.detail.failed = results.failed
                  /\ a.detail.flagged = results.flagged]_vars
    /\ [][(bIsRunning /\ ~bIsRunning') =>
            IF bPc = "findDue"
            THEN /\ bLast'.op = "Contract.findDueForBilling"
                 /\ bLast'.outcome = "returned" => findDueForBilling = <<>>
                 /\ SummaryRows(bCycles)' = {}
                 /\ UNCHANGED storeVars
            ELSE /\ bPc = "summary"
                 /\ bLast'.op = "auditManager.logAction"
                 /\ bLast'.outcome = "returned" => Cardinality(SummaryRows(bCycles)') = 1]_vars
    /\ [][(bPc = "findDue" /\ bLast' = Call("Contract.findDueForBilling", "returned")) =>
            IF findDueForBilling = <<>>
            THEN ~bIsRunning' /\ bPc' = "idle"
            ELSE bIsRunning' /\ bPc' = "create"]_vars
    /\ [](\A n \in 1..MaxBillingCycles + 1 : Cardinality(SummaryRows(n)) <= 1)

\* the first cycle has processed two contracts and written its summary, the
\* second has found nothing due and ended without one
C16_Witness ==
    /\ ~bIsRunning /\ bCycles = 2
    /\ bLast = Call("Contract.findDueForBilling", "returned")
    /\ \E a \in SummaryRows(1) : a.detail.total = 2
    /\ SummaryRows(2) = {}

(***************************************************************************)
(* C17: when the query for the due contracts fails, the cycle is aborted:  *)
(* nothing was written since the trigger (no invoice, no new billing date, *)
(* no summary), the error is caught inside executeBillingCycle, the guard  *)
(* is released, and the next trigger starts a cycle from the query again.  *)
(***************************************************************************)
C17_QueryFailureAbortsCycle ==
    /\ [][(bPc = "findDue" /\ bLast'.outcome = "threw") =>
            /\ bLast' = Call("Contract.findDueForBilling", "threw")
            /\ ~bIsRunning' /\ bPc' = "idle"
            /\ dueContracts' = <<>> /\ bIdx' = 0 /\ results' = NoResults
            /\ invoiceId' = Null
            /\ UNCHANGED <<storeVars, bCycles>>
            /\ SummaryRows(bCycles)' = {}]_vars
    /\ [][bPc' = "findDue" => UNCHANGED storeVars]_vars
    /\ [](bLast.op = "executeBillingCycle" => bLast.outcome \in {"started", "skipped"})
    /\ [][(bLast = Call("Contract.findDueForBilling", "threw")
             /\ bLast'.op = "executeBillingCycle") =>
            /\ bLast'.outcome = "started"
            /\ bIsRunning' /\ bPc' = "findDue"
            /\ bCycles' = bCycles + 1]_vars

\* the query of the first cycle failed and left no trace in the tables; the
\* second cycle has found the same contracts due
C17_Witness ==
    /\ faults = 1 /\ bCycles = 2
    /\ bIsRunning /\ bPc = "create" /\ bIdx = 1
    /\ CreatedInvoices = {} /\ auditLog = {}
    /\ \A c \in ContractIds :
          contracts[c].next_billing_date \in {Some(Today0), Some(Today0 - 1), Some(Today0 - 40)}

(***************************************************************************)
(* C18: the amounts calculateInvoiceAmounts stores are the contract's      *)
(* amount, the tax and the discount as percentages of it, and a total that *)
(* equals subtotal + tax_amount - discount_amount, all as rounded to two   *)
(* decimals.                                                               *)
(***************************************************************************)
\* x (in 1/10000 cent) rounds to this many cents, either way on a half cent.
RoundsTo(x, cents) == \E up \in BOOLEAN : toFixed(x, up) = cents

C18_TotalIsSumOfStoredAmounts ==
    \A i \in DOMAIN invoices :
        invoices[i].contract_id = 1 =>
            /\ invoices[i].subtotal = contracts[1].amount
            /\ RoundsTo(invoices[i].subtotal * contracts[1].tax_rate,
                        invoices[i].tax_amount)
            /\ RoundsTo(invoices[i].subtotal * contracts[1].discount_percentage,
                        invoices[i].discount_amount)
            /\ invoices[i].total_amount =
                   invoices[i].subtotal + invoices[i].tax_amount
                       - invoices[i].discount_amount

(***************************************************************************)
(* C19: every advance of a billing date by calculateNextBillingDate gives  *)
(* the same day of the month one interval of calendar months later (1 for  *)
(* monthly, 3 for quarterly, 12 for yearly), from every start date, days   *)
(* 29, 30 and 31 included; so two advances give two intervals.             *)
(***************************************************************************)
MonthsOf(frequency) ==
    CASE frequency = "monthly" -> 1
      [] frequency = "quarterly" -> 3
      [] frequency = "yearly" -> 12
      [] OTHER -> 0

\* The months since year 0 of a day number.
MonthIndex(z) == CivilFromDays(z).year * 12 + CivilFromDays(z).month

C19_AdvanceKeepsDayOfMonth ==
    [][\A c \in ContractIds :
          (/\ contracts[c].next_billing_date # Null
           /\ contracts'[c].next_billing_date # Null
           /\ contracts'[c].next_billing_date # contracts[c].next_billing_date) =>
             LET before == Val(contracts[c].next_billing_date)
                 after  == Val(contracts'[c].next_billing_date)
             IN  /\ CivilFromDays(after).day = CivilFromDays(before).day
                 /\ MonthIndex(after) =
                        MonthIndex(before) + MonthsOf(contracts[c].billing_frequency)]_vars

(***************************************************************************)
(* C20: a contract's next_billing_date is null only when the contract is   *)
(* one-time and its single invoice has been created; a contract with a     *)
(* null date is never returned by the due query; and the billing job never *)
(* creates a second invoice for a one-time contract.                       *)
(***************************************************************************)
C20_OneTimeInvoicedOnce ==
    /\ \A c \in ContractIds :
          contracts[c].next_billing_date = Null =>
              /\ contracts[c].billing_frequency = "one-time"
              /\ Cardinality(InvoicesCreatedFor(c)) = 1
    /\ \A k \in DOMAIN findDueForBilling :
          contracts[findDueForBilling[k].id].next_billing_date # Null
    /\ \A c \in ContractIds :
          contracts[c].billing_frequency = "one-time" =>
              Cardinality(InvoicesCreatedFor(c)) <= 1

(***************************************************************************)
(* C21: in a reminder cycle, an overdue invoice for which the cadence says *)
(* send is handed to sendReminderEmail: the reminder is delivered, the     *)
(* status is set to overdue unless the row already had it, and when        *)
(* sendReminderEmail returns the invoice is counted as reminder sent. An   *)
(* invoice for which the cadence says no is passed over in the same turn:  *)
(* no email, no write, counted as skipped.                                 *)
(***************************************************************************)
\* The awaits of sendReminderEmail.
ReminderSteps == {"findInvoice", "sendReminderMail", "updateStatusOverdue", "logReminderSent"}

RemindersIn(box, i) == {m \in box : m.type = "reminder" /\ m.invoice_id = i}

ReminderEmails(i) == RemindersIn(outbox, i)

\* The positions of the list the loop passes over in this step without waiting.
PassedOver == {k \in DOMAIN overdueInvoices' : rIdx < k /\ k < rIdx'}

C21_ReminderSentOrSkipped ==
    /\ [](rPc \in ReminderSteps =>
            /\ rIsRunning /\ rIdx \in DOMAIN overdueInvoices
            /\ shouldSendReminder(daysOverdue) /\ sendDecision = Some(TRUE)
            /\ rResults.total = Len(overdueInvoices)
            /\ rResults.reminders_sent + rResults.skipped + rResults.failed = rIdx - 1)
    /\ [](rPc = "logReminderSent" =>
            /\ ReminderEmails(overdueInvoices[rIdx].id) # {}
            /\ invoices[overdueInvoices[rIdx].id].status = "overdue")
    /\ [][rLast' = Call("mailer.sendReminderEmail", "returned") /\ rLast' # rLast =>
            /\ rPc = "logReminderSent"
            /\ RemindersIn(outbox', overdueInvoices[rIdx].id) # {}
            /\ invoices'[overdueInvoices[rIdx].id].status = "overdue"
            /\ rIsRunning' =>
                  /\ rResults'.reminders_sent = rResults.reminders_sent + 1
                  /\ rResults'.failed = rResults.failed]_vars
    /\ [][(rIsRunning' /\ rIdx' # rIdx) =>
            /\ rResults'.skipped =
                   (IF rIsRunning THEN rResults.skipped ELSE 0) + Cardinality(PassedOver)
            /\ \A k \in PassedOver :
                  /\ ~shouldSendReminder(today - overdueInvoices'[k].due_date)
                  /\ RemindersIn(outbox', overdueInvoices'[k].id) =
                         RemindersIn(outbox, overdueInvoices'[k].id)
                  /\ invoices'[overdueInvoices'[k].id] = invoices[overdueInvoices'[k].id]]_vars
    /\ [][outbox' # outbox =>
            /\ rPc = "sendReminderMail"
            /\ outbox' = outbox \cup {[type |-> "reminder",
                                        invoice_id |-> overdueInvoices[rIdx].id,
                                        day |-> today]}]_vars
    /\ [][invoices' # invoices =>
            /\ rPc = "updateStatusOverdue"
            /\ Val(rInvoice).status # "overdue"
            /\ invoices' = [invoices EXCEPT ![overdueInvoices[rIdx].id].status = "overdue"]]_vars

\* the first invoice was reminded and is overdue now, the second was passed over
\* untouched, and the third is being reminded
C21_Witness ==
    /\ rPc = "sendReminderMail" /\ rIdx = 3
    /\ rResults.reminders_sent = 1 /\ rResults.skipped = 1
    /\ invoices[overdueInvoices[1].id].status = "overdue"
    /\ ReminderEmails(overdueInvoices[1].id) # {}
    /\ invoices[overdueInvoices[2].id].status = "pending"
    /\ ReminderEmails(overdueInvoices[2].id) = {}

(***************************************************************************)
(* C22: an error while one overdue invoice is processed is caught by the   *)
(* loop: the invoice is counted as failed, its status is the one it had    *)
(* when its processing began, and the loop goes on with the invoices that  *)
(* remain, to the end of the list.                                         *)
(***************************************************************************)
C22_ReminderFailureIsolated ==
    [][(rPc \in ReminderSteps /\ rLast'.outcome = "threw" /\ rLast' # rLast) =>
          /\ rInvoice # Null =>
                invoices'[overdueInvoices[rIdx].id].status = Val(rInvoice).status
          /\ IF rIsRunning'
             THEN /\ rIdx' > rIdx
                  /\ overdueInvoices' = overdueInvoices
                  /\ rResults'.failed = rResults.failed + 1
                  /\ rResults'.reminders_sent = rResults.reminders_sent
             ELSE \A k \in DOMAIN overdueInvoices :
                      k > rIdx => ~shouldSendReminder(today - overdueInvoices[k].due_date)]_vars

(***************************************************************************)
(* C23: no cycle blocks for ever. A billing cycle that has started returns *)
(* and releases its guard in the end, also when an external call never     *)
(* answers: the call is cut off by a timeout and counts as a failure.      *)
(***************************************************************************)
C23_CycleAlwaysCompletes == bIsRunning ~> ~bIsRunning

(***************************************************************************)
(* C24: a duplicate check that fails does not throw: checkDuplicates       *)
(* answers is_duplicate = false with similarity_score 0, so an invoice     *)
(* whose correctness verdict scores below 70 is still validated and, with  *)
(* nothing else failing, emailed. A customer without another invoice in    *)
(* the last 30 days gets the same answer and the AI is not asked.          *)
(***************************************************************************)
C24_DuplicateCheckFailsOpen ==
    /\ [][(bPc = "checkDuplicates" /\ bLast'.outcome = "threw") =>
            /\ bPc' = "saveValidationLog"
            /\ UNCHANGED <<results, bIdx, invoiceId>>
            /\ ~duplicateCheck'.is_duplicate
            /\ duplicateCheck'.similarity_score = 0
            /\ finalResult'.anomaly_score = validationResult.anomaly_score
            /\ (validationResult.anomaly_score < 70 =>
                    finalResult'.validation_status = "validated")]_vars
    /\ [][(bPc = "checkDuplicates" /\ recentInvoices(Val(invoiceId)) = {}
             /\ bPc' # bPc) =>
            /\ bLast' \in {Call("checkDuplicates", "no candidates"),
                            Call("checkDuplicates", "threw")}
            /\ bPc' = "saveValidationLog"
            /\ ~duplicateCheck'.is_duplicate
            /\ duplicateCheck'.similarity_score = 0]_vars
    /\ [][(bPc \in {"saveValidationLog", "updateAiValidation", "logAIValidation",
                     "sendMail"}
             /\ duplicateCheck = DuplicateCheckFailed
             /\ validationResult.anomaly_score < 70
             /\ bLast'.outcome # "threw" /\ bPc' # bPc) =>
            /\ bPc' \in {"updateAiValidation", "logAIValidation", "sendMail",
                          "updateStatus"}
            /\ (bPc = "sendMail" => InvoiceEmails(Val(invoiceId))' # {})]_vars

\* the duplicate check failed for an invoice the AI scored 0 against its
\* contract; the invoice is stored as validated and its email is delivered
C24_Witness ==
    /\ bPc = "updateStatus"
    /\ duplicateCheck = DuplicateCheckFailed
    /\ validationResult.anomaly_score = 0
    /\ recentInvoices(Val(invoiceId)) # {}
    /\ invoices[Val(invoiceId)].ai_validation_status = "validated"
    /\ InvoiceEmails(Val(invoiceId)) # {}

(***************************************************************************)
(* C25: the overdue query selects exactly the invoices with status sent or *)
(* pending whose due date is strictly before today. An invoice due today   *)
(* or later is not selected and gets no reminder from the reminder cycle.  *)
(***************************************************************************)
\* The invoices the query of this step has returned.
Selected == {overdueInvoices'[k].id : k \in DOMAIN overdueInvoices'}

C25_OnlyPastDueSelected ==
    /\ [][(rPc = "findOverdue" /\ rLast'.outcome = "returned") =>
            IF rIsRunning'
            THEN \A i \in DOMAIN invoices :
                    i \in Selected <=>
                        /\ invoices[i].status \in {"sent", "pending"}
                        /\ invoices[i].due_date < today
            ELSE \* nothing selected, or nothing selected is due a reminder today
                 /\ UNCHANGED storeVars
                 /\ \A i \in DOMAIN invoices :
                        ~(/\ invoices[i].status \in {"sent", "pending"}
                          /\ shouldSendReminder(today - invoices[i].due_date))]_vars
    /\ [](\A m \in outbox :
              m.type = "reminder" => invoices[m.invoice_id].due_date < m.day)
    /\ [][\A i \in DOMAIN invoices :
              invoices[i].due_date >= today =>
                  /\ RemindersIn(outbox', i) = RemindersIn(outbox, i)
                  /\ invoices'[i].status = invoices[i].status]_vars

\* the cycle has selected and reminded the invoice 35 days late and passed
\* over the one 9 days late; the sent invoice due today was not selected
C25_Witness ==
    /\ rIsRunning /\ Len(overdueInvoices) = 2
    /\ invoices[3].status = "sent" /\ invoices[3].due_date = today
    /\ \A k \in DOMAIN overdueInvoices : overdueInvoices[k].id # 3
    /\ rPc = "logReminderSent"
    /\ ReminderEmails(overdueInvoices[1].id) # {}
    /\ ReminderEmails(3) = {}

(***************************************************************************)
(* C26: every selected invoice is counted in exactly one urgency bucket:   *)
(* low for 1..7 days overdue, medium for 8..14, high for 15..30, critical  *)
(* beyond 30. Whether a reminder is sent depends on the cadence alone, not *)
(* on the bucket.                                                          *)
(***************************************************************************)
Urgencies == {"low", "medium", "high", "critical"}

\* The buckets as ranges of days overdue.
InBucket(d, b) ==
    CASE b = "low"      -> d \in 1..7
      [] b = "medium"   -> d \in 8..14
      [] b = "high"     -> d \in 15..30
      [] b = "critical" -> d > 30

\* The positions of the list processOverdueInvoice is called for in this step.
Entered == {k \in DOMAIN overdueInvoices' : rIdx < k /\ k <= rIdx'}

C26_OneUrgencyBucketEach ==
    /\ [][(rIsRunning' /\ rIdx' # rIdx) =>
            /\ \A b \in Urgencies :
                  rResults'.by_urgency[b] =
                      (IF rIsRunning THEN rResults.by_urgency[b] ELSE 0)
                      + Cardinality({k \in Entered :
                                       InBucket(today - overdueInvoices'[k].due_date, b)})
            /\ \A k \in Entered :
                  (k = rIdx') <=> shouldSendReminder(today - overdueInvoices'[k].due_date)]_vars
    /\ [][(rIsRunning /\ rIsRunning' /\ rIdx' = rIdx) =>
            rResults'.by_urgency = rResults.by_urgency]_vars
    /\ [](rPc \in ReminderSteps =>
            /\ rResults.by_urgency.low + rResults.by_urgency.medium
                   + rResults.by_urgency.high + rResults.by_urgency.critical = rIdx
            /\ rIdx <= rResults.total)

\* three invoices in three buckets: 35 days late (critical, reminded), 9 days
\* late (medium, passed over) and 3 days late (low, about to be reminded)
C26_Witness ==
    /\ rPc = "sendReminderMail" /\ rIdx = 3 /\ daysOverdue = 3
    /\ rResults.by_urgency = [low |-> 1, medium |-> 1, high |-> 0, critical |-> 1]
    /\ rResults.reminders_sent = 1 /\ rResults.skipped = 1
    /\ ReminderEmails(overdueInvoices[2].id) = {}
    /\ today - overdueInvoices[2].due_date = 9

(***************************************************************************)
(* C27: the counts of the billing summary partition the work: at the end   *)
(* of every cycle successful + flagged + failed = total, also when a step  *)
(* after the decision to email or flag (advancing next_billing_date)       *)
(* fails.                                                                  *)
(***************************************************************************)
C27_SummaryCountsPartitionWork ==
    bPc = "summary" =>
        results.successful + results.flagged + results.failed = results.total

(***************************************************************************)
(* C28: across cycles the billing job creates at most one invoice per      *)
(* contract and billing period (per value of next_billing_date), also when *)
(* a step after the creation of the invoice fails in one cycle and the     *)
(* contract is picked again by the next. All cycles here run on one day    *)
(* and each contract has one period that falls due by that day: its next   *)
(* date lies a month or more ahead, or is null.                            *)
(***************************************************************************)
C28_OneInvoicePerBillingPeriod ==
    \A c \in ContractIds :
        /\ Cardinality(InvoicesCreatedFor(c)) <= 1
        /\ contracts[c].next_billing_date # Null =>
              \/ Val(contracts[c].next_billing_date) <= Today0 + 1
              \/ /\ Val(contracts[c].next_billing_date) >= Today0 + 28
                 /\ Cardinality(InvoicesCreatedFor(c)) = 1

(***************************************************************************)
(* C29: an invoice that stays unpaid keeps being selected by the daily     *)
(* cycles: after a reminder on one cadence day it is selected again, and   *)
(* so reminded again, by the cycle that runs on its next cadence day.      *)
(***************************************************************************)
C29_RemindedAgainOnNextCadenceDay ==
    [][(rPc = "findOverdue" /\ rLast'.outcome = "returned") =>
          \A i \in DOMAIN invoices :
              (/\ invoices[i].status # "paid"
               /\ ReminderEmails(i) # {}
               /\ shouldSendReminder(today - invoices[i].due_date)
               /\ \A m \in ReminderEmails(i) : m.day < today) =>
                  rIsRunning' /\ i \in Selected]_vars

(***************************************************************************)
(* C30: the reminder cycle reminds only of invoices that were emailed to   *)
(* the customer. An invoice that was flagged, or whose pipeline failed     *)
(* before the email, still has status pending and never gets a reminder.   *)
(***************************************************************************)
C30_NoReminderForUnsentInvoice ==
    [][\A i \in DOMAIN invoices :
          invoices[i].status = "pending" =>
              RemindersIn(outbox', i) = RemindersIn(outbox, i)]_vars

====
